---- MODULE Spec2Model ----
(***************************************************************************)
(* Model of the TrouveUnCadeau cost-optimisation core: the Redis-backed    *)
(* CacheManager (cache_manager.py), the MultiLLMRouter                     *)
(* (multi_llm_router.py) and the /api/recommendations handler (app.py).    *)
(*                                                                         *)
(* Conventions.                                                            *)
(*  - A Python str is a sequence of one-character strings.                 *)
(*  - Optional[T]: None is <<>>, a value v is <<v>>.                       *)
(*  - A Python dict with insertion order (a request context) is a sequence *)
(*    of <<key, value>> pairs with distinct keys; a dict whose order never *)
(*    matters (a response payload) is a function from field names.        *)
(*  - Money is in units of 10^-8 USD, so that 0.06/1e6 USD is 6.           *)
(*  - datetime.now() is the logical clock now, which every call advances.  *)
(***************************************************************************)
EXTENDS Integers, Sequences, FiniteSets, TLC

VARIABLES
    ctor,          \* the arguments CacheManager was constructed with
    cache_manager, \* the CacheManager: [enabled, redis_client, ttl_seconds, stats]
    store,         \* the Redis keyspace: key -> [data, ttl]
    redis_up,      \* Redis answers the calls made now (otherwise they raise)
    llm_router,    \* the MultiLLMRouter: [stats]
    now,           \* logical clock read by datetime.now()
    last,          \* the last call made and what it returned
    written,       \* history: key -> the response last stored by set and still live
    served,        \* history: requests answered with a healthy cache, entry still live
    gone,          \* history: keys invalidate or clear_all removed, not set since
    pc, loc,       \* concurrent callers of get / track_usage: position, locals
    args, result   \* a function applied on its own: its arguments, what it returned

vars == <<ctor, cache_manager, store, redis_up, llm_router,
          now, last, written, served, gone, pc, loc, args, result>>

-----------------------------------------------------------------------------
(* Bounds of the model *)

MaxTime == 3

-----------------------------------------------------------------------------
(* Python values *)

None == <<>>
Some(v) == <<v>>
IsNone(o) == o = <<>>
Val(o) == o[1]

\* {**a, **b}
Merge(a, b) ==
    [k \in (DOMAIN a) \cup (DOMAIN b) |-> IF k \in DOMAIN b THEN b[k] ELSE a[k]]

SeqToSet(s) == {s[i] : i \in 1..Len(s)}

-----------------------------------------------------------------------------
(* str.lower(), str.strip(), str.split() *)

UpperChars == <<"A","B","C","D","E","F","G","H","I","J","K","L","M","N","O","P",
                "Q","R","S","T","U","V","W","X","Y","Z","É","È","Â">>
LowerChars == <<"a","b","c","d","e","f","g","h","i","j","k","l","m","n","o","p",
                "q","r","s","t","u","v","w","x","y","z","é","è","â">>

Whitespace == {" ", "\t", "\n"}

LowerChar(ch) ==
    IF \E i \in 1..Len(UpperChars) : UpperChars[i] = ch
    THEN LowerChars[CHOOSE i \in 1..Len(UpperChars) : UpperChars[i] = ch]
    ELSE ch

RECURSIVE lower(_)
lower(s) == IF s = <<>> THEN <<>> ELSE <<LowerChar(Head(s))>> \o lower(Tail(s))

UpperChar(ch) ==
    IF \E i \in 1..Len(LowerChars) : LowerChars[i] = ch
    THEN UpperChars[CHOOSE i \in 1..Len(LowerChars) : LowerChars[i] = ch]
    ELSE ch

RECURSIVE upper(_)
upper(s) == IF s = <<>> THEN <<>> ELSE <<UpperChar(Head(s))>> \o upper(Tail(s))

strip(s) ==
    LET idx == {i \in 1..Len(s) : s[i] \notin Whitespace}
    IN  IF idx = {} THEN <<>>
        ELSE LET lo == CHOOSE i \in idx : \A j \in idx : i <= j
                 hi == CHOOSE i \in idx : \A j \in idx : j <= i
             IN  SubSeq(s, lo, hi)

\* len(s.split()): the number of maximal runs of non-whitespace characters
word_count(s) ==
    Cardinality({i \in 1..Len(s) :
                    /\ s[i] \notin Whitespace
                    /\ (i = 1 \/ s[i-1] \in Whitespace)})

\* kw in s
Contains(s, kw) ==
    \E i \in 0..(Len(s) - Len(kw)) : SubSeq(s, i + 1, i + Len(kw)) = kw

\* s.count(ch)
CountChar(s, ch) == Cardinality({i \in 1..Len(s) : s[i] = ch})

-----------------------------------------------------------------------------
(* CacheManager._generate_cache_key *)

\* the lexicographic order of the context keys used by the model
ContextKeyOrder == <<"age", "budget", "occasion", "style">>

KeyRank(k) == CHOOSE i \in 1..Len(ContextKeyOrder) : ContextKeyOrder[i] = k

\* json.dumps(..., sort_keys=True) of a dict: its items in key order
RECURSIVE SortedItems(_)
SortedItems(d) ==
    IF Len(d) = 0 THEN <<>>
    ELSE LET m == CHOOSE i \in 1..Len(d) :
                     \A j \in 1..Len(d) : KeyRank(d[i][1]) <= KeyRank(d[j][1])
             rest == [i \in 1..(Len(d) - 1) |-> IF i < m THEN d[i] ELSE d[i + 1]]
         IN  <<d[m]>> \o SortedItems(rest)

\* context or {}
ContextOrEmpty(context) == IF IsNone(context) \/ Val(context) = <<>> THEN <<>> ELSE Val(context)

CachePrefix == "trouveuncadeau:llm:"

\* hashlib.md5(...).hexdigest(): modelled as collision-free, the digest is
\* identified with the bytes it was computed from.
md5(cache_string) == [md5 |-> cache_string]

\* a key derived from the query as typed
_generate_cache_key_raw(query, context) ==
    LET cache_data   == [query |-> query, context |-> ContextOrEmpty(context)]
        cache_string == [query |-> cache_data.query,
                         context |-> SortedItems(cache_data.context)]
    IN  [prefix |-> CachePrefix, digest |-> md5(cache_string)]

\* a key derived from the context in the order of its items
_generate_cache_key_unsorted(query, context) ==
    LET cache_data   == [query |-> strip(lower(query)), context |-> ContextOrEmpty(context)]
        cache_string == [query |-> cache_data.query, context |-> cache_data.context]
    IN  [prefix |-> CachePrefix, digest |-> md5(cache_string)]

\* a key derived from the query alone
_generate_cache_key_query_only(query, context) ==
    LET cache_string == [query |-> strip(lower(query)), context |-> <<>>]
    IN  [prefix |-> CachePrefix, digest |-> md5(cache_string)]

_generate_cache_key(query, context) ==
    LET cache_data   == [query |-> strip(lower(query)), context |-> ContextOrEmpty(context)]
        cache_string == [query |-> cache_data.query,
                         context |-> SortedItems(cache_data.context)]
    IN  [prefix |-> CachePrefix, digest |-> md5(cache_string)]

-----------------------------------------------------------------------------
(* Python values held in a response dict, tagged with their type *)

PyStr(s)   == [t |-> "str",   v |-> s]
PyInt(n)   == [t |-> "int",   v |-> n]
PyFloat(x) == [t |-> "float", v |-> x]
PyBool(b)  == [t |-> "bool",  v |-> b]
PyDict(d)  == [t |-> "dict",  v |-> d]
PyTuple(s) == [t |-> "tuple", v |-> s]
PyList(s)  == [t |-> "list",  v |-> s]

\* the cache key as a str value: the namespace prefix followed by the digest
PyKey(key) == [t |-> "str", v |-> key.prefix, digest |-> key.digest]

\* datetime.now().isoformat()
isoformat(time) == PyStr(ToString(time))

-----------------------------------------------------------------------------
(* json.dumps / json.loads *)

\* what json.dumps writes for a value: a tuple is written as an array
JsonEncode(value) == IF value.t = "tuple" THEN [value EXCEPT !.t = "list"] ELSE value

json_dumps(d) == [kind |-> "json", obj |-> [k \in DOMAIN d |-> JsonEncode(d[k])]]

\* json.loads raises on anything that is not JSON text
JsonLoadable(data) == data.kind = "json"
json_loads(data) == data.obj

\* payloads Redis can hold that the cache did not write
GarbageData == [kind |-> "garbage", obj |-> <<>>]
EmptyData   == [kind |-> "empty",   obj |-> <<>>]

\* bool(str): only the empty string is falsy
Truthy(data) == data.kind # "empty"

-----------------------------------------------------------------------------
(* Redis commands on a keyspace kv (each may instead raise: see store_ok) *)

redis_get(kv, key) == IF key \in DOMAIN kv THEN Some(kv[key].data) ELSE None

redis_setex(kv, key, ttl, data) ==
    [k \in (DOMAIN kv) \cup {key} |->
        IF k = key THEN [data |-> data, ttl |-> Some(ttl)] ELSE kv[k]]

redis_delete(kv, keys) == [k \in (DOMAIN kv) \ keys |-> kv[k]]

redis_keys(kv, prefix) == {k \in DOMAIN kv : k.prefix = prefix}

-----------------------------------------------------------------------------
(* CacheManager.  self is the object: [enabled, redis_client, ttl_seconds,  *)
(* stats]; kv is the Redis keyspace.  Every method returns its return value *)
(* ret, the object and keyspace it leaves, the number of Redis calls it     *)
(* made, and whether an exception left the method.                          *)

SecondsPerDay == 86400

InitStats == [hits |-> 0, misses |-> 0, errors |-> 0, last_hit |-> None, last_miss |-> None]

\* a constructor that keeps the cache enabled when the PING fails
CacheManagerIgnoresPing(ttl_days, enabled_arg, ping_ok) ==
    [enabled      |-> enabled_arg,
     redis_client |-> IF enabled_arg THEN Some("Redis") ELSE None,
     ttl_seconds  |-> ttl_days * SecondsPerDay,
     stats        |-> InitStats]

\* CacheManager.__init__.  ping_ok: the PING at construction answers.
CacheManager(ttl_days, enabled_arg, ping_ok) ==
    [enabled      |-> enabled_arg /\ ping_ok,
     redis_client |-> IF enabled_arg /\ ping_ok THEN Some("Redis") ELSE None,
     ttl_seconds  |-> ttl_days * SecondsPerDay,
     stats        |-> InitStats]

\* the except-branch shared by get, set, invalidate and clear_all
CountError(self) == [self EXCEPT !.stats.errors = @ + 1]

\* not self.enabled or not self.redis_client
Disabled(self) == ~self.enabled \/ IsNone(self.redis_client)

\* a hit counted without its timestamp
get_hit_unstamped(self, cached_data) ==
    LET s1 == [self EXCEPT !.stats.hits = @ + 1]
    IN  IF JsonLoadable(cached_data)
        THEN [ret  |-> Some(Merge(json_loads(cached_data),
                                  [cached |-> PyBool(TRUE), cache_hit_at |-> isoformat(now)])),
              self |-> s1, exc |-> FALSE]
        ELSE [ret |-> None, self |-> s1, exc |-> TRUE]

\* the Cache HIT branch of get: count the hit, then deserialize
get_hit(self, cached_data) ==
    LET s1 == [self EXCEPT !.stats.hits = @ + 1, !.stats.last_hit = Some(isoformat(now))]
    IN  IF JsonLoadable(cached_data)
        THEN [ret  |-> Some(Merge(json_loads(cached_data),
                                  [cached |-> PyBool(TRUE), cache_hit_at |-> isoformat(now)])),
              self |-> s1, exc |-> FALSE]
        ELSE [ret |-> None, self |-> s1, exc |-> TRUE]

\* the Cache MISS branch of get
\* a miss that does not record when it happened
get_miss_unstamped(self) ==
    [ret  |-> None,
     self |-> [self EXCEPT !.stats.misses = @ + 1],
     exc  |-> FALSE]

get_miss(self) ==
    [ret  |-> None,
     self |-> [self EXCEPT !.stats.misses = @ + 1, !.stats.last_miss = Some(isoformat(now))],
     exc  |-> FALSE]

\* the body of the try block of get; store_ok: the Redis GET answers
get_try(self, kv, query, context, store_ok) ==
    LET cache_key == _generate_cache_key(query, context)
    IN  IF ~store_ok THEN [ret |-> None, self |-> self, exc |-> TRUE]
        ELSE LET cached_data == redis_get(kv, cache_key)
             IN  IF ~IsNone(cached_data) /\ Truthy(Val(cached_data))
                 THEN get_hit(self, Val(cached_data))
                 ELSE get_miss(self)

\* get letting the exception of its try block through
get_reraises(self, kv, query, context, store_ok) ==
    IF Disabled(self)
    THEN [ret |-> None, self |-> self, kv |-> kv, store_calls |-> 0, raised |-> FALSE]
    ELSE LET body == get_try(self, kv, query, context, store_ok)
         IN  IF body.exc
             THEN [ret |-> None, self |-> CountError(body.self), kv |-> kv,
                   store_calls |-> 1, raised |-> TRUE]
             ELSE [ret |-> body.ret, self |-> body.self, kv |-> kv,
                   store_calls |-> 1, raised |-> FALSE]

\* CacheManager.get
get(self, kv, query, context, store_ok) ==
    IF Disabled(self)
    THEN [ret |-> None, self |-> self, kv |-> kv, store_calls |-> 0, raised |-> FALSE]
    ELSE LET body == get_try(self, kv, query, context, store_ok)
         IN  IF body.exc
             THEN [ret |-> None, self |-> CountError(body.self), kv |-> kv,
                   store_calls |-> 1, raised |-> FALSE]
             ELSE [ret |-> body.ret, self |-> body.self, kv |-> kv,
                   store_calls |-> 1, raised |-> FALSE]

\* ttl_override if ttl_override else self.ttl_seconds
set_ttl(self, ttl_override) ==
    IF ~IsNone(ttl_override) /\ Val(ttl_override) # 0
    THEN Val(ttl_override) ELSE self.ttl_seconds

\* set storing the metadata without the response
set_try_metadata_only(self, kv, query, response, context, ttl_override, store_ok) ==
    LET cache_key  == _generate_cache_key(query, context)
        cache_data == [cached_at |-> isoformat(now), cache_key |-> PyKey(cache_key)]
        ttl        == set_ttl(self, ttl_override)
    IN  IF store_ok /\ ttl > 0
        THEN [kv |-> redis_setex(kv, cache_key, ttl, json_dumps(cache_data)), exc |-> FALSE]
        ELSE [kv |-> kv, exc |-> TRUE]

\* set letting the fields of the response replace the metadata
set_try_response_last(self, kv, query, response, context, ttl_override, store_ok) ==
    LET cache_key  == _generate_cache_key(query, context)
        cache_data == Merge([cached_at |-> isoformat(now), cache_key |-> PyKey(cache_key)],
                            response)
        ttl        == set_ttl(self, ttl_override)
    IN  IF store_ok /\ ttl > 0
        THEN [kv |-> redis_setex(kv, cache_key, ttl, json_dumps(cache_data)), exc |-> FALSE]
        ELSE [kv |-> kv, exc |-> TRUE]

\* the body of the try block of set; SETEX rejects a non-positive expire time
set_try(self, kv, query, response, context, ttl_override, store_ok) ==
    LET cache_key  == _generate_cache_key(query, context)
        cache_data == Merge(response, [cached_at |-> isoformat(now),
                                       cache_key |-> PyKey(cache_key)])
        ttl        == set_ttl(self, ttl_override)
    IN  IF store_ok /\ ttl > 0
        THEN [kv |-> redis_setex(kv, cache_key, ttl, json_dumps(cache_data)), exc |-> FALSE]
        ELSE [kv |-> kv, exc |-> TRUE]

\* set not counting the error of its try block
set_uncounted(self, kv, query, response, context, ttl_override, store_ok) ==
    IF Disabled(self)
    THEN [ret |-> FALSE, self |-> self, kv |-> kv, store_calls |-> 0, raised |-> FALSE]
    ELSE LET body == set_try(self, kv, query, response, context, ttl_override, store_ok)
         IN  IF body.exc
             THEN [ret |-> FALSE, self |-> self, kv |-> body.kv,
                   store_calls |-> 1, raised |-> FALSE]
             ELSE [ret |-> TRUE, self |-> self, kv |-> body.kv,
                   store_calls |-> 1, raised |-> FALSE]

\* set letting the exception of its try block through
set_reraises(self, kv, query, response, context, ttl_override, store_ok) ==
    IF Disabled(self)
    THEN [ret |-> FALSE, self |-> self, kv |-> kv, store_calls |-> 0, raised |-> FALSE]
    ELSE LET body == set_try(self, kv, query, response, context, ttl_override, store_ok)
         IN  IF body.exc
             THEN [ret |-> FALSE, self |-> CountError(self), kv |-> body.kv,
                   store_calls |-> 1, raised |-> TRUE]
             ELSE [ret |-> TRUE, self |-> self, kv |-> body.kv,
                   store_calls |-> 1, raised |-> FALSE]

\* CacheManager.set
set(self, kv, query, response, context, ttl_override, store_ok) ==
    IF Disabled(self)
    THEN [ret |-> FALSE, self |-> self, kv |-> kv, store_calls |-> 0, raised |-> FALSE]
    ELSE LET body == set_try(self, kv, query, response, context, ttl_override, store_ok)
         IN  IF body.exc
             THEN [ret |-> FALSE, self |-> CountError(self), kv |-> body.kv,
                   store_calls |-> 1, raised |-> FALSE]
             ELSE [ret |-> TRUE, self |-> self, kv |-> body.kv,
                   store_calls |-> 1, raised |-> FALSE]

\* invalidate deleting every entry of the namespace
invalidate_namespace(self, kv, query, context, store_ok) ==
    IF Disabled(self)
    THEN [ret |-> FALSE, self |-> self, kv |-> kv, store_calls |-> 0, raised |-> FALSE]
    ELSE LET cache_key == _generate_cache_key(query, context)
         IN  IF ~store_ok
             THEN [ret |-> FALSE, self |-> CountError(self), kv |-> kv,
                   store_calls |-> 1, raised |-> FALSE]
             ELSE [ret |-> cache_key \in DOMAIN kv, self |-> self,
                   kv |-> redis_delete(kv, redis_keys(kv, CachePrefix)),
                   store_calls |-> 1, raised |-> FALSE]

\* CacheManager.invalidate
invalidate(self, kv, query, context, store_ok) ==
    IF Disabled(self)
    THEN [ret |-> FALSE, self |-> self, kv |-> kv, store_calls |-> 0, raised |-> FALSE]
    ELSE LET cache_key == _generate_cache_key(query, context)
         IN  IF ~store_ok
             THEN [ret |-> FALSE, self |-> CountError(self), kv |-> kv,
                   store_calls |-> 1, raised |-> FALSE]
             ELSE [ret |-> cache_key \in DOMAIN kv, self |-> self,
                   kv |-> redis_delete(kv, {cache_key}),
                   store_calls |-> 1, raised |-> FALSE]

\* clear_all emptying the database
clear_all_database(self, kv, keys_ok, delete_ok) ==
    IF Disabled(self)
    THEN [ret |-> FALSE, self |-> self, kv |-> kv, store_calls |-> 0, raised |-> FALSE]
    ELSE IF ~keys_ok
    THEN [ret |-> FALSE, self |-> CountError(self), kv |-> kv,
          store_calls |-> 1, raised |-> FALSE]
    ELSE [ret |-> TRUE, self |-> self, kv |-> <<>>, store_calls |-> 1, raised |-> FALSE]

\* clear_all starting the statistics again once the entries are deleted
clear_all_resetting(self, kv, keys_ok, delete_ok) ==
    IF Disabled(self)
    THEN [ret |-> FALSE, self |-> self, kv |-> kv, store_calls |-> 0, raised |-> FALSE]
    ELSE IF ~keys_ok \/ ~delete_ok
    THEN [ret |-> FALSE, self |-> CountError(self), kv |-> kv,
          store_calls |-> 1, raised |-> FALSE]
    ELSE [ret |-> TRUE, self |-> [self EXCEPT !.stats = InitStats],
          kv |-> redis_delete(kv, redis_keys(kv, CachePrefix)),
          store_calls |-> 2, raised |-> FALSE]

\* CacheManager.clear_all: KEYS, then DELETE when there are keys.
\* keys_ok / delete_ok: the respective Redis call answers.
clear_all(self, kv, keys_ok, delete_ok) ==
    IF Disabled(self)
    THEN [ret |-> FALSE, self |-> self, kv |-> kv, store_calls |-> 0, raised |-> FALSE]
    ELSE IF ~keys_ok
    THEN [ret |-> FALSE, self |-> CountError(self), kv |-> kv,
          store_calls |-> 1, raised |-> FALSE]
    ELSE LET keys == redis_keys(kv, CachePrefix)
         IN  IF keys = {}
             THEN [ret |-> TRUE, self |-> self, kv |-> kv,
                   store_calls |-> 1, raised |-> FALSE]
             ELSE IF ~delete_ok
             THEN [ret |-> FALSE, self |-> CountError(self), kv |-> kv,
                   store_calls |-> 2, raised |-> FALSE]
             ELSE [ret |-> TRUE, self |-> self, kv |-> redis_delete(kv, keys),
                   store_calls |-> 2, raised |-> FALSE]

\* get_hit_rate dividing by every counted call, errors included
get_hit_rate_of_calls(self) ==
    LET total == self.stats.hits + self.stats.misses + self.stats.errors
    IN  IF total = 0 THEN <<0, 1>> ELSE <<self.stats.hits, total>>

\* CacheManager.get_hit_rate, as the pair <<hits, total>> of the quotient
\* (<<0, 1>> is 0.0)
get_hit_rate(self) ==
    LET total == self.stats.hits + self.stats.misses
    IN  IF total = 0 THEN <<0, 1>> ELSE <<self.stats.hits, total>>

\* a health_check that counts the Redis call that raised as an error
health_check_counting(self, kv, calls_ok) ==
    IF Disabled(self)
    THEN [ret |-> "disabled", self |-> self, kv |-> kv, store_calls |-> 0, raised |-> FALSE]
    ELSE IF calls_ok >= 3
    THEN [ret |-> "healthy", self |-> self, kv |-> kv, store_calls |-> 3, raised |-> FALSE]
    ELSE [ret |-> "unhealthy", self |-> [self EXCEPT !.stats.errors = @ + 1], kv |-> kv,
          store_calls |-> calls_ok + 1, raised |-> FALSE]

\* CacheManager.health_check: PING, INFO, then KEYS; the first that raises
\* makes the status unhealthy.  calls_ok: how many of the three answer.
health_check(self, kv, calls_ok) ==
    IF Disabled(self)
    THEN [ret |-> "disabled", self |-> self, kv |-> kv, store_calls |-> 0, raised |-> FALSE]
    ELSE IF calls_ok >= 3
    THEN [ret |-> "healthy", self |-> self, kv |-> kv, store_calls |-> 3, raised |-> FALSE]
    ELSE [ret |-> "unhealthy", self |-> self, kv |-> kv,
          store_calls |-> calls_ok + 1, raised |-> FALSE]

-----------------------------------------------------------------------------
(* MultiLLMRouter *)

\* LLMProvider: the members, by name, and their values
LLMProvider == {"TOGETHER", "GEMINI", "CLAUDE"}

ProviderNames == [TOGETHER |-> <<"T","O","G","E","T","H","E","R">>,
                  GEMINI   |-> <<"G","E","M","I","N","I">>,
                  CLAUDE   |-> <<"C","L","A","U","D","E">>]

ProviderValue == [TOGETHER |-> "together.ai", GEMINI |-> "gemini", CLAUDE |-> "claude"]

\* MultiLLMRouter.COSTS, in 10^-8 USD per token
COSTS == [TOGETHER |-> 6, GEMINI |-> 0, CLAUDE |-> 25]

COMPLEX_KEYWORDS == <<
    <<"c","o","m","p","a","r","e","r">>,
    <<"a","n","a","l","y","s","e","r">>,
    <<"e","x","p","l","i","q","u","e","r">>,
    <<"d","i","f","f","é","r","e","n","c","e">>,
    <<"p","o","u","r","q","u","o","i">>,
    <<"c","o","m","m","e","n","t">>,
    <<"m","e","i","l","l","e","u","r">>,
    <<"c","o","n","s","e","i","l">>,
    <<"r","e","c","o","m","m","a","n","d","a","t","i","o","n"," ","p","e","r","s","o","n","n","a","l","i","s","é","e">>,
    <<"p","l","u","s","i","e","u","r","s"," ","o","p","t","i","o","n","s">> >>

MEDIUM_KEYWORDS == <<
    <<"b","u","d","g","e","t">>,
    <<"o","c","c","a","s","i","o","n">>,
    <<"â","g","e">>,
    <<"g","e","n","r","e">>,
    <<"l","i","s","t","e">>,
    <<"i","d","é","e","s">>,
    <<"s","u","g","g","e","s","t","i","o","n","s">> >>

\* the tokens of step 6 of analyze_complexity
COMPARISON_TOKENS == <<
    <<"v","s">>,
    <<"o","u">>,
    <<"v","e","r","s","u","s">>,
    <<"v","s",".">> >>

SentenceEnd == {".", "!", "?"}

\* len(re.split(r'[.!?]+', query)): one more than the number of maximal runs
\* of sentence-ending characters
sentence_count(query) ==
    1 + Cardinality({i \in 1..Len(query) :
                        /\ query[i] \in SentenceEnd
                        /\ (i = 1 \/ query[i-1] \notin SentenceEnd)})

\* keywords counted only where they stand as whole words of the text
keyword_matches_words(keywords, text) ==
    Cardinality({i \in 1..Len(keywords) :
        \E p \in 0..(Len(text) - Len(keywords[i])) :
            /\ SubSeq(text, p + 1, p + Len(keywords[i])) = keywords[i]
            /\ (p = 0 \/ text[p] = " ")
            /\ (p + Len(keywords[i]) = Len(text) \/ text[p + Len(keywords[i]) + 1] = " ")})

\* sum(1 for kw in keywords if kw in text)
keyword_matches(keywords, text) ==
    Cardinality({i \in 1..Len(keywords) : Contains(text, keywords[i])})

length_score(query) ==
    LET wc == word_count(query)
    IN  IF wc > 30 THEN 30 ELSE IF wc > 15 THEN 15 ELSE IF wc > 8 THEN 5 ELSE 0

multi_question_score(query) ==
    IF CountChar(query, "?") > 1 \/ sentence_count(query) > 2 THEN 15 ELSE 0

\* step 5 giving 5 points from three entries on
context_score_over_two(context) ==
    LET n == IF IsNone(context) THEN 0 ELSE Len(Val(context))
    IN  IF n > 3 THEN 10 ELSE IF n > 2 THEN 5 ELSE 0

\* if context: (None and the empty dict are falsy)
context_score(context) ==
    LET n == IF IsNone(context) THEN 0 ELSE Len(Val(context))
    IN  IF n > 3 THEN 10 ELSE IF n > 1 THEN 5 ELSE 0

\* step 6 looking for "ou" and "versus" only
comparison_score_no_vs(query) ==
    IF Contains(query, <<"o","u">>) \/ Contains(query, <<"v","e","r","s","u","s">>)
    THEN 15 ELSE 0

comparison_score(query) ==
    IF \E i \in 1..Len(COMPARISON_TOKENS) : Contains(query, COMPARISON_TOKENS[i])
    THEN 15 ELSE 0

complexity_score(query, context) ==
    LET query_lower == lower(query)
    IN  length_score(query)
        + keyword_matches(COMPLEX_KEYWORDS, query_lower) * 20
        + keyword_matches(MEDIUM_KEYWORDS, query_lower) * 5
        + multi_question_score(query)
        + context_score(context)
        + comparison_score(query)

\* MultiLLMRouter.analyze_complexity
analyze_complexity(query, context) ==
    LET score == complexity_score(query, context)
    IN  IF score >= 50 THEN "COMPLEX" ELSE IF score >= 20 THEN "MEDIUM" ELSE "SIMPLE"

\* route sending a medium query to the cheapest paid provider
route_medium_paid(query, context, force_provider) ==
    IF ~IsNone(force_provider) THEN Val(force_provider)
    ELSE IF analyze_complexity(query, context) = "COMPLEX" THEN "CLAUDE" ELSE "TOGETHER"

\* a route that classifies the query whether or not a provider is forced
route_unforced(query, context, force_provider) ==
    LET complexity == analyze_complexity(query, context)
    IN  IF complexity = "COMPLEX" THEN "CLAUDE"
        ELSE IF complexity = "MEDIUM" THEN "GEMINI"
        ELSE "TOGETHER"

\* MultiLLMRouter.route; force_provider is an Optional[LLMProvider]
route(query, context, force_provider) ==
    IF ~IsNone(force_provider) THEN Val(force_provider)
    ELSE LET complexity == analyze_complexity(query, context)
         IN  IF complexity = "COMPLEX" THEN "CLAUDE"
             ELSE IF complexity = "MEDIUM" THEN "GEMINI"
             ELSE "TOGETHER"

\* a call of route on the router self: the provider returned, the router it
\* leaves, and the methods it called
route_call(self, query, context, force_provider) ==
    [ret   |-> route(query, context, force_provider),
     self  |-> self,
     calls |-> IF ~IsNone(force_provider) THEN <<>> ELSE <<"analyze_complexity">>]

\* MultiLLMRouter.__init__
MultiLLMRouter == [stats |-> [p \in LLMProvider |-> [count |-> 0, total_cost |-> 0]]]

\* track_usage charging the output tokens only
track_usage_output_only(self, provider, input_tokens, output_tokens) ==
    LET cost == output_tokens * COSTS[provider]
    IN  [ret  |-> cost,
         self |-> [self EXCEPT !.stats[provider].count = @ + 1,
                               !.stats[provider].total_cost = @ + cost]]

\* MultiLLMRouter.track_usage: the cost returned and the router it leaves
track_usage(self, provider, input_tokens, output_tokens) ==
    LET total_tokens == input_tokens + output_tokens
        cost         == total_tokens * COSTS[provider]
    IN  [ret  |-> cost,
         self |-> [self EXCEPT !.stats[provider].count = @ + 1,
                               !.stats[provider].total_cost = @ + cost]]

\* a / b * 100 as the quotient <<a, b>> it is 100 times of
Percent(a, b) == <<a, b>>

\* the body of estimate_monthly_cost for a target distribution given in
\* hundredths of the requests.  Requests are counted in hundredths (x * 0.90
\* is x * 90) and tokens in hundreds (200 + 300 is 2 + 3), so that costs are
\* in 10^-8 USD as in COSTS; 0.60 / 1_000_000 USD per token is 60.
estimate_for(daily_requests, together_share, gemini_share, claude_share) ==
    LET monthly_requests       == daily_requests * 30
        avg_tokens_per_request == 2 + 3
        together_requests      == monthly_requests * together_share
        gemini_requests        == monthly_requests * gemini_share
        claude_requests        == monthly_requests * claude_share
        together_cost == together_requests * avg_tokens_per_request * COSTS.TOGETHER
        gemini_cost   == 0
        claude_cost   == claude_requests * avg_tokens_per_request * COSTS.CLAUDE
        total_cost    == together_cost + gemini_cost + claude_cost
        openai_cost_per_token == 60
        openai_total_cost == monthly_requests * 100 * avg_tokens_per_request
                                * openai_cost_per_token
        savings == openai_total_cost - total_cost
    IN  [daily_requests   |-> daily_requests,
         monthly_requests |-> monthly_requests,
         costs   |-> [together_ai |-> together_cost, gemini_flash |-> gemini_cost,
                      claude_haiku |-> claude_cost, total |-> total_cost,
                      openai_comparison |-> openai_total_cost],
         savings |-> [amount_usd |-> savings,
                      percentage |-> IF openai_total_cost > 0
                                     THEN Percent(savings, openai_total_cost)
                                     ELSE Percent(0, 1)]]

\* an estimate for the distribution of the requests tracked so far, when
\* there are any
estimate_monthly_cost_of_usage(self, daily_requests) ==
    LET total == self.stats.TOGETHER.count + self.stats.GEMINI.count
                    + self.stats.CLAUDE.count
    IN  [ret  |-> IF total = 0 THEN estimate_for(daily_requests, 90, 8, 2)
                  ELSE estimate_for(daily_requests,
                                    (self.stats.TOGETHER.count * 100) \div total,
                                    (self.stats.GEMINI.count * 100) \div total,
                                    (self.stats.CLAUDE.count * 100) \div total),
         self |-> self]

\* an estimate for requests spread evenly over the three providers
estimate_monthly_cost_even(self, daily_requests) ==
    [ret |-> estimate_for(daily_requests, 34, 33, 33), self |-> self]

\* MultiLLMRouter.estimate_monthly_cost: the estimate returned and the router
\* it leaves.  Target distribution: 90% Together, 8% Gemini, 2% Claude.
estimate_monthly_cost(self, daily_requests) ==
    [ret |-> estimate_for(daily_requests, 90, 8, 2), self |-> self]

-----------------------------------------------------------------------------
(* app.py: POST /api/recommendations.  The handler's result records the    *)
(* calls it made, in order, in calls.                                      *)

\* the mock LLM call of get_recommendations
input_tokens == 150
output_tokens == 200

\* RecommendationResponse: its fields and their types
ResponseFields == {"recommendations", "llm_used", "cached", "cost_usd", "tokens"}
ResponseFieldTypes ==
    [recommendations |-> {"str"}, llm_used |-> {"str"}, cached |-> {"bool"},
     cost_usd |-> {"float", "int"}, tokens |-> {"dict"}]

\* RecommendationResponse(**d) validates (otherwise pydantic raises ValidationError)
ResponseValid(d) ==
    /\ ResponseFields \subseteq DOMAIN d
    /\ \A f \in ResponseFields : d[f].t \in ResponseFieldTypes[f]

\* the response model keeps its own fields only
RecommendationResponse(d) == [f \in ResponseFields |-> d[f]]

\* LLMProvider[name]: the member of that name; KeyError when there is none
HasMember(name) == \E p \in LLMProvider : ProviderNames[p] = name
Member(name) == CHOOSE p \in LLMProvider : ProviderNames[p] = name

\* if request.force_provider: (None and "" are falsy)
ForceGiven(request) ==
    ~IsNone(request.force_provider) /\ Val(request.force_provider) # <<>>

\* response_data of get_recommendations
response_data(request, provider, cost) ==
    [recommendations |-> PyStr(<<"[Mock] Recommandations pour: ", request.query>>),
     llm_used        |-> PyStr(ProviderValue[provider]),
     cached          |-> PyBool(FALSE),
     cost_usd        |-> PyFloat(cost),
     tokens          |-> PyDict([input  |-> input_tokens,
                                 output |-> output_tokens,
                                 total  |-> input_tokens + output_tokens])]

NoException == [type |-> "", status_code |-> 0]
HTTPException(status_code) == [type |-> "HTTPException", status_code |-> status_code]
ValidationError == [type |-> "ValidationError", status_code |-> 0]
\* an exception that left cache_manager.get or cache_manager.set
Raised == [type |-> "Exception", status_code |-> 0]

\* a handler returning the response without writing it into the cache
get_recommendations_unsaved(data, tracked, saved) ==
    [exc   |-> NoException,
     body  |-> Some(RecommendationResponse(data)),
     cache |-> saved.self, kv |-> store, router |-> tracked.self,
     store_calls |-> 0,
     calls |-> <<"route", "track_usage">>]

\* the end of the Cache MISS part: the response returned once track_usage
\* has returned tracked and cache_manager.set has returned saved
get_recommendations_saved(data, tracked, saved) ==
    [exc   |-> IF saved.raised THEN Raised ELSE NoException,
     body  |-> IF saved.raised THEN None ELSE Some(RecommendationResponse(data)),
     cache |-> saved.self, kv |-> saved.kv, router |-> tracked.self,
     store_calls |-> saved.store_calls,
     calls |-> <<"route", "track_usage", "set">>]

\* a miss that routes and tracks the request before it looks up the name
\* given as force_provider
get_recommendations_miss_tracked(cm, request, set_ok) ==
    LET known    == ~ForceGiven(request) \/ HasMember(upper(Val(request.force_provider)))
        force_provider == IF ForceGiven(request) /\ known
                          THEN Some(Member(upper(Val(request.force_provider))))
                          ELSE None
        provider == route(request.query, request.context, force_provider)
        tracked  == track_usage(llm_router, provider, input_tokens, output_tokens)
        data     == response_data(request, provider, tracked.ret)
    IN  IF ~known
        THEN [exc |-> HTTPException(400), body |-> None, cache |-> cm, kv |-> store,
              router |-> tracked.self, store_calls |-> 0,
              calls |-> <<"route", "track_usage">>]
        ELSE get_recommendations_saved(
                 data, tracked,
                 set(cm, store, request.query, data, request.context, None, set_ok))

\* the Cache MISS part of the try block of get_recommendations, entered with
\* the CacheManager cm as get left it
get_recommendations_miss(cm, request, set_ok) ==
    IF ForceGiven(request) /\ ~HasMember(upper(Val(request.force_provider)))
    THEN [exc |-> HTTPException(400), body |-> None, cache |-> cm, kv |-> store,
          router |-> llm_router, store_calls |-> 0, calls |-> <<>>]
    ELSE LET force_provider == IF ForceGiven(request)
                               THEN Some(Member(upper(Val(request.force_provider))))
                               ELSE None
             provider == route(request.query, request.context, force_provider)
             tracked  == track_usage(llm_router, provider, input_tokens, output_tokens)
             data     == response_data(request, provider, tracked.ret)
         IN  get_recommendations_saved(
                 data, tracked,
                 set(cm, store, request.query, data, request.context, None, set_ok))

\* the try block of get_recommendations once cache_manager.get has returned
\* probe
get_recommendations_probed(probe, request, set_ok) ==
    IF probe.raised
    THEN [exc |-> Raised, body |-> None, cache |-> probe.self, kv |-> store,
          router |-> llm_router, store_calls |-> probe.store_calls,
          calls |-> <<"get">>]
    ELSE IF ~IsNone(probe.ret) /\ DOMAIN Val(probe.ret) # {}
    THEN IF ResponseValid(Val(probe.ret))
         THEN [exc |-> NoException,
               body |-> Some(RecommendationResponse(Val(probe.ret))),
               cache |-> probe.self, kv |-> store, router |-> llm_router,
               store_calls |-> probe.store_calls, calls |-> <<"get">>]
         ELSE [exc |-> ValidationError, body |-> None,
               cache |-> probe.self, kv |-> store, router |-> llm_router,
               store_calls |-> probe.store_calls, calls |-> <<"get">>]
    ELSE [get_recommendations_miss(probe.self, request, set_ok)
             EXCEPT !.store_calls = @ + probe.store_calls,
                    !.calls = <<"get">> \o @]

\* the try block of get_recommendations.  get_ok / set_ok: the Redis call of
\* cache_manager.get / cache_manager.set answers.
get_recommendations_try(request, get_ok, set_ok) ==
    get_recommendations_probed(
        get(cache_manager, store, request.query, request.context, get_ok),
        request, set_ok)

\* except Exception turns whatever the try block raised (HTTPException is an
\* Exception) into HTTPException(500); the HTTPException handler answers
\* with the exception's status code.
get_recommendations_except(body) ==
    IF body.exc # NoException
    THEN [body EXCEPT !.exc = HTTPException(500)] @@ [status_code |-> 500]
    ELSE body @@ [status_code |-> 200]

\* get_recommendations
get_recommendations(request, get_ok, set_ok) ==
    get_recommendations_except(get_recommendations_try(request, get_ok, set_ok))

\* POST /api/cache/clear
clear_cache(keys_ok, delete_ok) ==
    IF ~cache_manager.enabled
    THEN [ret |-> "cache_disabled", self |-> cache_manager, kv |-> store,
          store_calls |-> 0, raised |-> FALSE]
    ELSE LET cleared == clear_all(cache_manager, store, keys_ok, delete_ok)
         IN  [cleared EXCEPT !.ret = IF cleared.ret THEN "success" ELSE "error"]

\* GET /health: the status field
health_endpoint(calls_ok) ==
    LET cache_health == health_check(cache_manager, store, calls_ok)
    IN  [cache_health EXCEPT
            !.ret = IF cache_health.ret \in {"healthy", "disabled"}
                    THEN "healthy" ELSE "degraded"]

-----------------------------------------------------------------------------
(* Inputs of the model *)

TtlDays == 7

QBudgetOu      == <<"b","u","d","g","e","t"," ","o","u">>
QBudgetOuShout == <<" ","B","U","D","G","E","T"," ","O","U">>
QMaman         == <<"m","a","m","a","n">>

Queries == {QBudgetOu, QBudgetOuShout}

CtxAge == << <<"age", 50>> >>

Contexts == {None, Some(CtxAge)}

ForceClaude == <<"c","l","a","u","d","e">>
ForceGpt    == <<"g","p","t">>

ForceProviders == {None, Some(ForceClaude), Some(ForceGpt)}

\* the requests posted to /api/recommendations
Requests == [query : Queries, context : {None}, force_provider : ForceProviders]

Keys == {_generate_cache_key(q, c) : q \in Queries, c \in Contexts}
RequestKeys == {_generate_cache_key(r.query, r.context) : r \in Requests}

\* inputs of _generate_cache_key
QA       == <<"a">>
QB       == <<"b">>
QAPadded == <<" ", "A", "\t">>

CtxEmpty     == <<>>
CtxAge51     == << <<"age", 51>> >>
CtxAgeBudget == << <<"age", 50>>, <<"budget", 100>> >>
CtxBudgetAge == << <<"budget", 100>>, <<"age", 50>> >>

KeyQueries  == {QBudgetOu, QBudgetOuShout, QA, QB, QAPadded}
KeyContexts == {None, Some(CtxEmpty), Some(CtxAge), Some(CtxAge51),
                Some(CtxAgeBudget), Some(CtxBudgetAge)}

\* s repeated n times
RECURSIVE Repeat(_, _)
Repeat(s, n) == IF n = 0 THEN <<>> ELSE s \o Repeat(s, n - 1)

\* queries of each tier: 31 words ending in "vs"; the same followed by a
\* medium keyword; two complex keywords and "ou"
QLongVs  == Repeat(<<"x", " ">>, 30) \o <<"v", "s">>
QLongVsBudget == QLongVs \o <<" ", "b","u","d","g","e","t">>
QComplex == <<"c","o","m","p","a","r","e","r"," ","o","u"," ",
              "a","n","a","l","y","s","e","r">>

RouteQueries  == {QMaman, QBudgetOu, QComplex, QLongVs, QLongVsBudget}
RouteContexts == {None, Some(CtxEmpty), Some(CtxAge), Some(CtxAgeBudget)}
RouteForces   == {None} \cup {Some(p) : p \in LLMProvider}

\* the reference queries of test_router
QMere == <<"J","e"," ","c","h","e","r","c","h","e"," ","u","n"," ",
           "c","a","d","e","a","u"," ","p","o","u","r"," ","m","a"," ",
           "m","è","r","e"," ","q","u","i"," ","a","i","m","e"," ",
           "l","i","r","e"," ","e","t"," ","j","a","r","d","i","n","e","r">>
QCadeauMaman == <<"C","a","d","e","a","u"," ","p","o","u","r"," ","m","a","m","a","n">>
QCompare == <<"C","o","m","p","a","r","e"," ","d","i","f","f","é","r","e","n","t","e","s"," ",
              "o","p","t","i","o","n","s"," ","e","t"," ","e","x","p","l","i","q","u","e"," ",
              "p","o","u","r","q","u","o","i">>

\* queries of 9 and of 16 words; two questions; three sentences
QNine      == Repeat(<<"x", " ">>, 9)
QSixteen   == Repeat(<<"x", " ">>, 16)
QQuestions == <<"x", "?", " ", "y", "?">>
QSentences == <<"x", ".", " ", "y", "!", " ", "z">>

CtxFour == << <<"age", 50>>, <<"budget", 100>>, <<"occasion", 1>>, <<"style", 2>> >>

\* the arguments analyze_complexity is called with
AnalyzeQueries  == {QCadeauMaman, QMere, QCompare, QMaman, QBudgetOu, QBudgetOuShout,
                    QComplex, QLongVs, QNine, QSixteen, QQuestions, QSentences}
AnalyzeContexts == {None, Some(CtxEmpty), Some(CtxAge), Some(CtxAgeBudget), Some(CtxFour)}

\* the daily_requests estimate_monthly_cost is called with (1000 by default)
DailyRequests == {0, 1, 1000}

\* the token counts track_usage is called with
InputTokens  == {0, input_tokens}
OutputTokens == {output_tokens}

\* how many requests the router on its own is asked to route
MaxRouted == 2

\* how many calls of track_usage the router on its own receives
MaxTracked == 3

\* a key of another application in the same Redis database
ForeignKey == [prefix |-> "session:", digest |-> md5([query |-> <<>>, context |-> <<>>])]

\* responses handed to CacheManager.set directly
RKindle == [recommendations |-> PyStr(<<"Kindle Paperwhite...">>),
            llm_used        |-> PyStr("together.ai"),
            cost_usd        |-> PyFloat(6000)]
RStale  == [recommendations |-> PyStr(<<"Livre">>),
            cached          |-> PyBool(FALSE),
            cached_at       |-> PyStr("yesterday"),
            cache_key       |-> PyStr("mine")]
RTuple  == [recommendations |-> PyStr(<<"Fleurs">>),
            tags            |-> PyTuple(<<"a", "b">>)]

\* the (response, ttl_override) pairs set is called with
SetCalls == {<<RKindle, None>>, <<RStale, Some(0)>>, <<RTuple, Some(3600)>>}

Threads == {"t1", "t2"}

\* the locals of a thread that has not called anything
IdleThread == [op |-> "", provider |-> "", todo |-> <<>>, tmp |-> 0, reached |-> FALSE]

-----------------------------------------------------------------------------
(* The state machine *)

BlankLast ==
    [op |-> "init", query |-> <<>>, context |-> None, response |-> <<>>,
     ttl_override |-> None, force_provider |-> None,
     ret |-> None, ok |-> FALSE, status |-> "", status_code |-> 0,
     raised |-> FALSE, store_calls |-> 0, store_ok |-> TRUE, calls |-> <<>>]

\* the record of a call: the fields given, the others blank
Call(fields) == Merge(BlankLast, fields)

Forget(history, keys) == [k \in (DOMAIN history) \ keys |-> history[k]]
Remember(history, key, value) ==
    [k \in (DOMAIN history) \cup {key} |-> IF k = key THEN value ELSE history[k]]

\* the history of live entries after a call that left the keyspace kv, having
\* been asked to store value under key
Track(kv, key, value) ==
    IF kv = store THEN written
    ELSE IF key \in DOMAIN kv /\ (key \notin DOMAIN store \/ kv[key] # store[key])
    THEN Remember(written, key, value)
    ELSE Forget(written, (DOMAIN store) \ (DOMAIN kv))

\* a request answered while the cache was healthy: its query trimmed and in
\* lower case, its context, and the key its entry is stored under
Served(request, key) ==
    [query |-> strip(lower(request.query)), context |-> request.context, key |-> key]

\* the answered requests whose entries are among the keys left
StillServed(keys) == {e \in served : e.key \in keys}

\* how many of the three Redis calls of health_check answer
CallsOk == IF redis_up THEN 3 ELSE 0

\* how many of the Redis calls of one health_check may answer: the store that
\* is up can stop answering after the PING or after the INFO
HealthCalls == IF redis_up /\ ~Disabled(cache_manager) THEN 1..3 ELSE {CallsOk}

Init ==
    /\ redis_up \in BOOLEAN
    /\ ctor \in [ttl_days : {TtlDays}, enabled : BOOLEAN, ping_ok : {redis_up}]
    /\ cache_manager = CacheManager(ctor.ttl_days, ctor.enabled, ctor.ping_ok)
    /\ store = <<>>
    /\ llm_router = MultiLLMRouter
    /\ now = 0
    /\ last = BlankLast
    /\ written = <<>>
    /\ served = {}
    /\ gone = {}
    /\ pc = [t \in Threads |-> "idle"]
    /\ loc = [t \in Threads |-> IdleThread]
    /\ args = <<>>
    /\ result = <<>>

Tick == now < MaxTime /\ now' = now + 1

(* The CacheManager driven directly *)

Get(query, context) ==
    LET r == get(cache_manager, store, query, context, redis_up)
    IN  /\ Tick
        /\ cache_manager' = r.self
        /\ last' = Call([op |-> "get", query |-> query, context |-> context,
                         ret |-> r.ret, raised |-> r.raised,
                         store_calls |-> r.store_calls, store_ok |-> redis_up])
        /\ UNCHANGED <<ctor, store, redis_up, llm_router, written, served, gone, pc, loc, args, result>>

Set(query, response, context, ttl_override) ==
    LET r == set(cache_manager, store, query, response, context, ttl_override, redis_up)
    IN  /\ Tick
        /\ cache_manager' = r.self
        /\ store' = r.kv
        /\ written' = Track(r.kv, _generate_cache_key(query, context), response)
        /\ served' = StillServed(DOMAIN store \ {_generate_cache_key(query, context)})
        /\ gone' = IF r.ret THEN gone \ {_generate_cache_key(query, context)} ELSE gone
        /\ last' = Call([op |-> "set", query |-> query, context |-> context,
                         response |-> response, ttl_override |-> ttl_override,
                         ok |-> r.ret, raised |-> r.raised,
                         store_calls |-> r.store_calls, store_ok |-> redis_up])
        /\ UNCHANGED <<ctor, redis_up, llm_router, pc, loc, args, result>>

Invalidate(query, context) ==
    LET r == invalidate(cache_manager, store, query, context, redis_up)
    IN  /\ Tick
        /\ cache_manager' = r.self
        /\ store' = r.kv
        /\ written' = Forget(written, (DOMAIN store) \ (DOMAIN r.kv))
        /\ served' = StillServed(DOMAIN r.kv)
        /\ gone' = IF cache_manager.enabled /\ redis_up
                   THEN gone \cup {_generate_cache_key(query, context)} ELSE gone
        /\ last' = Call([op |-> "invalidate", query |-> query, context |-> context,
                         ok |-> r.ret, raised |-> r.raised,
                         store_calls |-> r.store_calls, store_ok |-> redis_up])
        /\ UNCHANGED <<ctor, redis_up, llm_router, pc, loc, args, result>>

ClearAll ==
    LET r == clear_all(cache_manager, store, redis_up, redis_up)
    IN  /\ Tick
        /\ cache_manager' = r.self
        /\ store' = r.kv
        /\ written' = Forget(written, (DOMAIN store) \ (DOMAIN r.kv))
        /\ served' = StillServed(DOMAIN r.kv)
        /\ gone' = IF r.ret THEN Keys ELSE gone
        /\ last' = Call([op |-> "clear_all", ok |-> r.ret, raised |-> r.raised,
                         store_calls |-> r.store_calls, store_ok |-> redis_up])
        /\ UNCHANGED <<ctor, redis_up, llm_router, pc, loc, args, result>>

\* cache_manager.health_check(), calls_ok of its Redis calls answering: the
\* store that stops answering in between is down afterwards
HealthCheck(calls_ok) ==
    LET r == health_check(cache_manager, store, calls_ok)
    IN  /\ Tick
        /\ cache_manager' = r.self
        /\ redis_up' = (redis_up /\ r.ret # "unhealthy")
        /\ last' = Call([op |-> "health_check", status |-> r.ret, raised |-> r.raised,
                         store_calls |-> r.store_calls, store_ok |-> redis_up,
                         answered |-> calls_ok])
        /\ UNCHANGED <<ctor, store, llm_router, written, served, gone, pc, loc, args, result>>

(* Redis itself: a key's TTL runs out; another client writes under a key;  *)
(* the server becomes unreachable, or reachable again                      *)

Expire(key) ==
    /\ Tick
    /\ key \in DOMAIN store
    /\ store' = redis_delete(store, {key})
    /\ written' = Forget(written, {key})
    /\ served' = StillServed(DOMAIN store \ {key})
    /\ gone' = gone
    /\ last' = Call([op |-> "expire", store_ok |-> redis_up])
    /\ UNCHANGED <<ctor, cache_manager, redis_up, llm_router, pc, loc, args, result>>

ExternalWrite(key, data) ==
    /\ Tick
    /\ store' = [k \in (DOMAIN store) \cup {key} |->
                    IF k = key THEN [data |-> data, ttl |-> None] ELSE store[k]]
    /\ written' = Forget(written, {key})
    /\ served' = StillServed(DOMAIN store \ {key})
    /\ gone' = gone
    /\ last' = Call([op |-> "external_write", store_ok |-> redis_up])
    /\ UNCHANGED <<ctor, cache_manager, redis_up, llm_router, pc, loc, args, result>>

RedisToggle ==
    /\ Tick
    /\ redis_up' = ~redis_up
    /\ last' = Call([op |-> "redis_toggle", store_ok |-> ~redis_up])
    /\ UNCHANGED <<ctor, cache_manager, store, llm_router, written, served, gone, pc, loc, args, result>>

(* The HTTP endpoints *)

\* the step of a request whose handler returned r, key being the cache key of
\* the request
Answered(request, key, r) ==
    /\ Tick
    /\ cache_manager' = r.cache
    /\ store' = r.kv
    /\ llm_router' = r.router
    /\ written' = IF r.kv = store THEN written
                  ELSE Remember(written, key, json_loads(r.kv[key].data))
    /\ served' = IF r.status_code = 200 /\ key \in DOMAIN r.kv
                    /\ cache_manager.enabled /\ redis_up
                 THEN served \cup {Served(request, key)} ELSE served
    /\ gone' = IF r.kv = store THEN gone ELSE gone \ {key}
    /\ last' = Call([op |-> "get_recommendations", query |-> request.query,
                     context |-> request.context,
                     force_provider |-> request.force_provider,
                     ret |-> r.body, ok |-> r.status_code = 200,
                     status_code |-> r.status_code,
                     store_calls |-> r.store_calls, store_ok |-> redis_up,
                     calls |-> r.calls])
    /\ UNCHANGED <<ctor, redis_up, pc, loc, args, result>>

GetRecommendations(request) ==
    Answered(request, _generate_cache_key(request.query, request.context),
             get_recommendations(request, redis_up, redis_up))

ClearCache ==
    LET r == clear_cache(redis_up, redis_up)
    IN  /\ Tick
        /\ cache_manager' = r.self
        /\ store' = r.kv
        /\ written' = Forget(written, (DOMAIN store) \ (DOMAIN r.kv))
        /\ served' = StillServed(DOMAIN r.kv)
        /\ gone' = IF r.ret = "success" THEN Keys ELSE gone
        /\ last' = Call([op |-> "clear_cache", status |-> r.ret,
                         store_calls |-> r.store_calls, store_ok |-> redis_up])
        /\ UNCHANGED <<ctor, redis_up, llm_router, pc, loc, args, result>>

Health ==
    LET r == health_endpoint(CallsOk)
    IN  /\ Tick
        /\ last' = Call([op |-> "health", status |-> r.ret,
                         store_calls |-> r.store_calls, store_ok |-> redis_up])
        /\ UNCHANGED <<ctor, cache_manager, store, redis_up, llm_router,
                       written, served, gone, pc, loc, args, result>>

\* the application: its endpoints, and Redis
Next ==
    \/ \E request \in Requests : GetRecommendations(request)
    \/ ClearCache
    \/ Health
    \/ \E key \in RequestKeys : Expire(key)
    \/ \E key \in RequestKeys, data \in {GarbageData, EmptyData} : ExternalWrite(key, data)
    \/ RedisToggle

Spec == Init /\ [][Next]_vars

\* the CacheManager called directly, and Redis
NextCache ==
    \/ \E query \in Queries, context \in Contexts : Get(query, context)
    \/ \E query \in Queries, context \in Contexts, call \in SetCalls :
          Set(query, call[1], context, call[2])
    \/ \E query \in Queries, context \in Contexts : Invalidate(query, context)
    \/ ClearAll
    \/ \E calls_ok \in HealthCalls : HealthCheck(calls_ok)
    \/ \E key \in Keys : Expire(key)
    \/ \E key \in Keys \cup {ForeignKey}, data \in {GarbageData, EmptyData} :
          ExternalWrite(key, data)
    \/ RedisToggle

SpecCache == Init /\ [][NextCache]_vars

\* the endpoints and the CacheManager called directly, in any order
SpecAll == Init /\ [][Next \/ NextCache]_vars

-----------------------------------------------------------------------------
(* Threads calling get and track_usage on the shared objects.  A counter   *)
(* update  d[k] += x  is a load of d[k] followed by a store of the sum;    *)
(* nothing in the code orders the loads and stores of different threads.   *)

\* the stats counters a call of get increments, in the order of the code
CounterUpdates(before, after) ==
    LET fields == <<"hits", "misses", "errors">>
        touched(i) == after[fields[i]] # before[fields[i]]
    IN  SelectSeq([i \in 1..3 |-> <<fields[i], IF touched(i) THEN 1 ELSE 0>>],
                  LAMBDA u : u[2] # 0)

\* thread t calls cache_manager.get: the Redis GET and the choice of branch
ThreadGet(t, query, context) ==
    LET r == get(cache_manager, store, query, context, redis_up)
    IN  /\ pc[t] = "idle"
        /\ loc' = [loc EXCEPT ![t] =
                     [op |-> "get", provider |-> "",
                      todo |-> CounterUpdates(cache_manager.stats, r.self.stats),
                      tmp |-> 0,
                      reached |-> ~Disabled(cache_manager) /\ redis_up]]
        /\ pc' = [pc EXCEPT ![t] =
                    IF r.self.stats = cache_manager.stats THEN "done" ELSE "load"]
        /\ UNCHANGED <<ctor, cache_manager, store, redis_up, llm_router, now, last,
                       written, served, gone, args, result>>

\* thread t calls llm_router.track_usage(provider, input_tokens, output_tokens)
ThreadTrackUsage(t, provider) ==
    LET cost == track_usage(llm_router, provider, input_tokens, output_tokens).ret
    IN  /\ pc[t] = "idle"
        /\ loc' = [loc EXCEPT ![t] =
                     [op |-> "track_usage", provider |-> provider,
                      todo |-> << <<"count", 1>>, <<"total_cost", cost>> >>,
                      tmp |-> 0, reached |-> FALSE]]
        /\ pc' = [pc EXCEPT ![t] = "load"]
        /\ UNCHANGED <<ctor, cache_manager, store, redis_up, llm_router, now, last,
                       written, served, gone, args, result>>

\* the counter thread t is about to update
ThreadCounter(t) ==
    LET field == Head(loc[t].todo)[1]
    IN  IF loc[t].op = "get" THEN cache_manager.stats[field]
        ELSE llm_router.stats[loc[t].provider][field]

\* the load of  += : thread t reads the counter
ThreadLoad(t) ==
    /\ pc[t] = "load"
    /\ loc' = [loc EXCEPT ![t].tmp = ThreadCounter(t)]
    /\ pc' = [pc EXCEPT ![t] = "store"]
    /\ UNCHANGED <<ctor, cache_manager, store, redis_up, llm_router, now, last,
                   written, served, gone, args, result>>

\* the store of  += : thread t writes what it read plus the increment, and
\* get stamps last_hit / last_miss
ThreadStore(t) ==
    LET field == Head(loc[t].todo)[1]
        value == loc[t].tmp + Head(loc[t].todo)[2]
        stamp == isoformat(now)
    IN  /\ pc[t] = "store"
        /\ IF loc[t].op = "get"
           THEN /\ cache_manager' =
                     [cache_manager EXCEPT
                        !.stats[field] = value,
                        !.stats.last_hit = IF field = "hits" THEN Some(stamp) ELSE @,
                        !.stats.last_miss = IF field = "misses" THEN Some(stamp) ELSE @]
                /\ UNCHANGED llm_router
           ELSE /\ llm_router' = [llm_router EXCEPT !.stats[loc[t].provider][field] = value]
                /\ UNCHANGED cache_manager
        /\ loc' = [loc EXCEPT ![t].todo = Tail(@)]
        /\ pc' = [pc EXCEPT ![t] = IF Len(loc[t].todo) > 1 THEN "load" ELSE "done"]
        /\ UNCHANGED <<ctor, store, redis_up, now, last, written, served, gone, args, result>>

\* a keyspace holding an entry written by an earlier set
WarmStore ==
    set(CacheManager(TtlDays, TRUE, TRUE), <<>>, QBudgetOu, RKindle, None, None, TRUE).kv

InitConc ==
    /\ redis_up \in BOOLEAN
    /\ ctor \in [ttl_days : {TtlDays}, enabled : BOOLEAN, ping_ok : {redis_up}]
    /\ cache_manager = CacheManager(ctor.ttl_days, ctor.enabled, ctor.ping_ok)
    /\ now = 0
    /\ store \in {<<>>, WarmStore}
    /\ llm_router = MultiLLMRouter
    /\ last = BlankLast
    /\ written = <<>>
    /\ served = {}
    /\ gone = {}
    /\ pc = [t \in Threads |-> "idle"]
    /\ loc = [t \in Threads |-> IdleThread]
    /\ args = <<>>
    /\ result = <<>>

NextConc ==
    \/ \E t \in Threads, query \in Queries : ThreadGet(t, query, None)
    \/ \E t \in Threads, provider \in LLMProvider : ThreadTrackUsage(t, provider)
    \/ \E t \in Threads : ThreadLoad(t)
    \/ \E t \in Threads : ThreadStore(t)

SpecConc == InitConc /\ [][NextConc]_vars

-----------------------------------------------------------------------------
(* _generate_cache_key on its own: two (query, context) pairs are drawn,   *)
(* their keys derived, and the first pair is set and the second got on a   *)
(* working cache with an empty store.                                      *)

\* a working application in which nothing has been called, with arguments
\* drawn from inputs
InitApplied(inputs) ==
    /\ redis_up = TRUE
    /\ ctor = [ttl_days |-> TtlDays, enabled |-> TRUE, ping_ok |-> TRUE]
    /\ cache_manager = CacheManager(ctor.ttl_days, ctor.enabled, ctor.ping_ok)
    /\ store = <<>>
    /\ llm_router = MultiLLMRouter
    /\ now = 0
    /\ last = BlankLast
    /\ written = <<>>
    /\ served = {}
    /\ gone = {}
    /\ pc = [t \in Threads |-> "idle"]
    /\ loc = [t \in Threads |-> IdleThread]
    /\ args \in inputs
    /\ result = <<>>

\* what set(q1, RKindle, c1) leaves in an empty store
StoredFirst ==
    set(cache_manager, <<>>, args.q1, RKindle, args.c1, None, TRUE).kv

DeriveKeys ==
    /\ result = <<>>
    /\ result' = [key1 |-> _generate_cache_key(args.q1, args.c1),
                  key2 |-> _generate_cache_key(args.q2, args.c2),
                  got  |-> get(cache_manager, StoredFirst,
                               args.q2, args.c2, TRUE).ret]
    /\ UNCHANGED <<ctor, cache_manager, store, redis_up, llm_router, now, last,
                   written, served, gone, pc, loc, args>>

InitKey ==
    InitApplied([q1 : KeyQueries, c1 : KeyContexts, q2 : KeyQueries, c2 : KeyContexts])

SpecKey == InitKey /\ [][DeriveKeys]_vars

-----------------------------------------------------------------------------
(* The router on its own: a query is routed, then the usage of the         *)
(* provider returned is tracked, as the request handler does.              *)

\* llm_router.route(query, context, force_provider)
RouteQuery(query, context, force_provider) ==
    LET r == route_call(llm_router, query, context, force_provider)
    IN  /\ result = <<>>
        /\ llm_router.stats.TOGETHER.count + llm_router.stats.GEMINI.count
              + llm_router.stats.CLAUDE.count < MaxRouted
        /\ llm_router' = r.self
        /\ result' = [query |-> query, context |-> context,
                      force_provider |-> force_provider,
                      ret |-> r.ret, calls |-> r.calls]
        /\ UNCHANGED <<ctor, cache_manager, store, redis_up, now, last,
                       written, served, gone, pc, loc, args>>

\* llm_router.track_usage(provider, input_tokens, output_tokens)
TrackRouted ==
    /\ result # <<>>
    /\ llm_router' = track_usage(llm_router, result.ret, input_tokens, output_tokens).self
    /\ result' = <<>>
    /\ UNCHANGED <<ctor, cache_manager, store, redis_up, now, last,
                   written, served, gone, pc, loc, args>>

InitRoute == InitApplied({<<>>})

NextRoute ==
    \/ \E query \in RouteQueries, context \in RouteContexts,
          force_provider \in RouteForces :
          RouteQuery(query, context, force_provider)
    \/ TrackRouted

SpecRoute == InitRoute /\ [][NextRoute]_vars

-----------------------------------------------------------------------------
(* analyze_complexity on its own: a (query, context) pair is drawn, and    *)
(* classified and routed by a router that has tracked nothing.             *)

Classify ==
    /\ result = <<>>
    /\ result' = [complexity |-> analyze_complexity(args.query, args.context),
                  provider   |-> route_call(llm_router, args.query, args.context, None).ret]
    /\ UNCHANGED <<ctor, cache_manager, store, redis_up, llm_router, now, last,
                   written, served, gone, pc, loc, args>>

InitClassify == InitApplied([query : AnalyzeQueries, context : AnalyzeContexts])

SpecClassify == InitClassify /\ [][Classify]_vars

-----------------------------------------------------------------------------
(* Python float arithmetic.  A float is an IEEE 754 double: zero, or a     *)
(* significand m of Precision binary digits, most significant first and    *)
(* starting with 1, and an exponent e, standing for m * 2^e.  Every        *)
(* operation rounds its exact result to the nearest double, ties to the    *)
(* even significand.  Only non-negative values in the normal range occur.  *)

Precision == 53

FloatZero == [m |-> <<>>, e |-> 0]

Zeros(n) == [i \in 1..n |-> 0]

\* the binary digits of a natural number, most significant first
RECURSIVE NatBits(_)
NatBits(n) == IF n = 0 THEN <<>> ELSE Append(NatBits(n \div 2), n % 2)

\* digits without the zeros in front, and without the zeros behind
StripZeros(bits) ==
    IF \A i \in 1..Len(bits) : bits[i] = 0 THEN <<>>
    ELSE SubSeq(bits, CHOOSE i \in 1..Len(bits) :
                          bits[i] = 1 /\ \A j \in 1..(i - 1) : bits[j] = 0,
                Len(bits))

TrailingZeros(bits) ==
    Len(bits) - (CHOOSE i \in 1..Len(bits) :
                     bits[i] = 1 /\ \A j \in (i + 1)..Len(bits) : bits[j] = 0)

\* the sum of two naturals, digit by digit: a carry enters digit i when a
\* less significant digit makes one and every digit in between passes it on
SumBits(x, y) ==
    LET n      == 1 + (IF Len(x) > Len(y) THEN Len(x) ELSE Len(y))
        a      == Zeros(n - Len(x)) \o x
        b      == Zeros(n - Len(y)) \o y
        carry(i) == \E j \in (i + 1)..n :
                       /\ a[j] = 1 /\ b[j] = 1
                       /\ \A k \in (i + 1)..(j - 1) : a[k] + b[k] = 1
    IN  StripZeros([i \in 1..n |-> (a[i] + b[i] + (IF carry(i) THEN 1 ELSE 0)) % 2])

\* the product of two naturals, y without zeros behind
RECURSIVE MulBits(_, _)
MulBits(x, y) ==
    IF y = <<>> THEN <<>>
    ELSE LET acc == Append(MulBits(x, SubSeq(y, 1, Len(y) - 1)), 0)
         IN  IF y[Len(y)] = 1 THEN SumBits(acc, x) ELSE acc

\* the double nearest to bits * 2^e (plus less than 2^e when sticky)
RoundHalfEven(bits, e, sticky) ==
    IF bits = <<>> THEN FloatZero
    ELSE IF Len(bits) <= Precision
    THEN [m |-> bits \o Zeros(Precision - Len(bits)),
          e |-> e - (Precision - Len(bits))]
    ELSE LET kept    == SubSeq(bits, 1, Precision)
             dropped == SubSeq(bits, Precision + 1, Len(bits))
             above   == sticky \/ \E i \in 2..Len(dropped) : dropped[i] = 1
             up      == Head(dropped) = 1 /\ (above \/ kept[Precision] = 1)
             next    == SumBits(kept, <<1>>)
         IN  IF ~up THEN [m |-> kept, e |-> e + Len(dropped)]
             ELSE IF Len(next) > Precision
             THEN [m |-> SubSeq(next, 1, Precision), e |-> e + Len(dropped) + 1]
             ELSE [m |-> next, e |-> e + Len(dropped)]

\* float(n) of an int
float(n) == RoundHalfEven(NatBits(n), 0, FALSE)

\* the first n binary digits of r / b after the point, for r < b
RECURSIVE FractionBits(_, _, _)
FractionBits(r, b, n) ==
    IF n = 0 THEN <<>>
    ELSE <<(2 * r) \div b>> \o FractionBits((2 * r) % b, b, n - 1)

\* what is left of r after the first n binary digits of r / b
RECURSIVE FractionRest(_, _, _)
FractionRest(r, b, n) ==
    IF n = 0 THEN r ELSE FractionRest((2 * r) % b, b, n - 1)

\* a / b of two ints, b > 0
truediv(a, b) ==
    LET n == Precision + Len(NatBits(b)) + 1
    IN  RoundHalfEven(StripZeros(NatBits(a \div b) \o FractionBits(a % b, b, n)),
                      0 - n, FractionRest(a % b, b, n) # 0)

\* x * y of two floats
float_mul(x, y) ==
    IF x = FloatZero \/ y = FloatZero THEN FloatZero
    ELSE LET behind == TrailingZeros(y.m)
         IN  RoundHalfEven(MulBits(x.m, SubSeq(y.m, 1, Precision - behind)),
                           x.e + y.e + behind, FALSE)

\* x + y of two floats
float_add(x, y) ==
    IF x = FloatZero THEN y
    ELSE IF y = FloatZero THEN x
    ELSE LET e == IF x.e < y.e THEN x.e ELSE y.e
         IN  RoundHalfEven(SumBits(x.m \o Zeros(x.e - e), y.m \o Zeros(y.e - e)),
                           e, FALSE)

-----------------------------------------------------------------------------
(* MultiLLMRouter.get_stats.  Counts are ints and percentages floats; the  *)
(* costs stay in 10^-8 USD and the average cost is the quotient it is of.  *)

\* a / b as the pair <<a, b>>
Quotient(a, b) == <<a, b>>

\* get_stats reporting the fraction count / total as the percentage
get_stats_fractions(self) ==
    LET total_requests == self.stats.TOGETHER.count + self.stats.GEMINI.count
                              + self.stats.CLAUDE.count
        total_cost     == self.stats.TOGETHER.total_cost + self.stats.GEMINI.total_cost
                              + self.stats.CLAUDE.total_cost
        share(provider) ==
            [count      |-> self.stats[provider].count,
             percentage |-> IF total_requests > 0
                            THEN truediv(self.stats[provider].count, total_requests)
                            ELSE FloatZero,
             cost_usd   |-> self.stats[provider].total_cost]
    IN  [total_requests |-> total_requests,
         total_cost_usd |-> total_cost,
         distribution   |-> [together |-> share("TOGETHER"),
                             gemini   |-> share("GEMINI"),
                             claude   |-> share("CLAUDE")],
         avg_cost_per_request |-> IF total_requests > 0
                                  THEN Quotient(total_cost, total_requests)
                                  ELSE Quotient(0, 1)]

get_stats(self) ==
    LET total_requests == self.stats.TOGETHER.count + self.stats.GEMINI.count
                              + self.stats.CLAUDE.count
        total_cost     == self.stats.TOGETHER.total_cost + self.stats.GEMINI.total_cost
                              + self.stats.CLAUDE.total_cost
        share(provider) ==
            [count      |-> self.stats[provider].count,
             percentage |-> IF total_requests > 0
                            THEN float_mul(truediv(self.stats[provider].count,
                                                   total_requests), float(100))
                            ELSE FloatZero,
             cost_usd   |-> self.stats[provider].total_cost]
    IN  [total_requests |-> total_requests,
         total_cost_usd |-> total_cost,
         distribution   |-> [together |-> share("TOGETHER"),
                             gemini   |-> share("GEMINI"),
                             claude   |-> share("CLAUDE")],
         avg_cost_per_request |-> IF total_requests > 0
                                  THEN Quotient(total_cost, total_requests)
                                  ELSE Quotient(0, 1)]

-----------------------------------------------------------------------------
(* The methods of the router called directly.  args is the sequence of the *)
(* arguments track_usage has been called with and result the sequence of   *)
(* the costs it returned; last is the record of the last call.             *)

\* llm_router.track_usage(provider, input_tokens, output_tokens)
TrackUsage(provider, input, output) ==
    LET r == track_usage(llm_router, provider, input, output)
    IN  /\ Len(args) < MaxTracked
        /\ llm_router' = r.self
        /\ args' = Append(args, [provider |-> provider, input_tokens |-> input,
                                  output_tokens |-> output])
        /\ result' = Append(result, r.ret)
        /\ last' = Call([op |-> "track_usage", ret |-> Some(r.ret)])
        /\ UNCHANGED <<ctor, cache_manager, store, redis_up, now,
                       written, served, gone, pc, loc>>

\* llm_router.estimate_monthly_cost(daily_requests)
EstimateMonthlyCost(daily_requests) ==
    LET r == estimate_monthly_cost(llm_router, daily_requests)
    IN  /\ llm_router' = r.self
        /\ last' = Call([op |-> "estimate_monthly_cost",
                         daily_requests |-> daily_requests, ret |-> Some(r.ret)])
        /\ UNCHANGED <<ctor, cache_manager, store, redis_up, now,
                       written, served, gone, pc, loc, args, result>>

\* llm_router.get_stats()
GetStats ==
    /\ last' = Call([op |-> "get_stats", ret |-> Some(get_stats(llm_router))])
    /\ UNCHANGED <<ctor, cache_manager, store, redis_up, llm_router, now,
                   written, served, gone, pc, loc, args, result>>

NextRouter ==
    \/ GetStats
    \/ \E daily_requests \in DailyRequests : EstimateMonthlyCost(daily_requests)
    \/ \E provider \in LLMProvider, input \in InputTokens, output \in OutputTokens :
          TrackUsage(provider, input, output)

SpecRouter == InitRoute /\ [][NextRouter]_vars

-----------------------------------------------------------------------------
(* Properties.  last is the record of the call made by the step that led   *)
(* to the state; every step records one and advances now by one.           *)

\* the cache key of a recorded call
KeyOf(call) == _generate_cache_key(call.query, call.context)

\* the cache key of the last call
LastKey == KeyOf(last)

\* the fields set and get inject
MetadataFields == {"cached", "cached_at", "cache_key", "cache_hit_at"}

\* the last call was a get, on an enabled cache whose store answered, of a key
\* holding the entry of a successful set that has not expired nor been
\* invalidated, cleared or overwritten since
GetOfWritten ==
    /\ last.op = "get"
    /\ cache_manager.enabled
    /\ last.store_ok
    /\ LastKey \in DOMAIN written

\* C1 as stated: get(q, c) after a successful set(q, r, c), with no expiry,
\* invalidate or clear_all in between, returns an entry in which every field
\* of r has the value it had in r.
C1_RoundTripEveryField ==
    GetOfWritten =>
        /\ ~IsNone(last.ret)
        /\ \A f \in DOMAIN written[LastKey] :
              /\ f \in DOMAIN Val(last.ret)
              /\ Val(last.ret)[f] = written[LastKey][f]

\* C1 amended: get(q, c) after a successful set(q, r, c), with no expiry,
\* invalidate or clear_all in between, returns an entry whose fields are
\* those of r and cached, cached_at, cache_key, cache_hit_at; every field of r
\* other than these four has the value it had in r, a tuple having become a
\* list; cached is true, cache_key is the key of (q, c), cache_hit_at is the
\* time of the get and cached_at a timestamp string, whatever r held there.
C1_RoundTrip ==
    GetOfWritten =>
        /\ ~IsNone(last.ret)
        /\ LET r     == written[LastKey]
               entry == Val(last.ret)
           IN  /\ DOMAIN entry = (DOMAIN r) \cup MetadataFields
               /\ \A f \in (DOMAIN r) \ MetadataFields :
                     entry[f] = IF r[f].t = "tuple" THEN PyList(r[f].v) ELSE r[f]
               /\ entry.cached = PyBool(TRUE)
               /\ entry.cache_key = PyKey(LastKey)
               /\ entry.cache_hit_at = isoformat(now - 1)
               /\ entry.cached_at.t = "str"

\* C1 witness: a get returns the entry of a set whose response held its own
\* cached, cached_at and cache_key
C1_Witness ==
    /\ GetOfWritten
    /\ written[LastKey] = RStale
    /\ ~IsNone(last.ret)
    /\ Val(last.ret).recommendations = RStale.recommendations

\* the counters of the cache
stats == cache_manager.stats

\* C2: with a healthy enabled cache, once a request for (q, c) has completed
\* successfully (it is in served: its entry has not expired nor been
\* invalidated since), a later request with the same trimmed, lower-cased
\* query and context is answered with cached = true and leaves every
\* provider's count and total_cost unchanged.
C2_NoRepaying ==
    [][ ( /\ last'.op = "get_recommendations"
          /\ cache_manager.enabled
          /\ redis_up
          /\ \E e \in served : /\ e.query = strip(lower(last'.query))
                              /\ e.context = last'.context )
        => ( /\ last'.status_code = 200
             /\ ~IsNone(last'.ret)
             /\ Val(last'.ret).cached = PyBool(TRUE)
             /\ llm_router' = llm_router ) ]_vars

\* C2 witness: a request is answered from the entry that a request with
\* another spelling of the query stored
C2_Witness ==
    /\ last.op = "get_recommendations"
    /\ last.status_code = 200
    /\ ~IsNone(last.ret)
    /\ Val(last.ret).cached = PyBool(TRUE)
    /\ Val(last.ret).recommendations.v[2] # last.query

\* get counted a hit: hits + 1, last_hit stamped, an entry with cached = true
\* returned, misses and errors as they were
HitCounted ==
    /\ stats'.hits = stats.hits + 1
    /\ stats'.last_hit = Some(isoformat(now))
    /\ ~IsNone(last'.ret)
    /\ Val(last'.ret).cached = PyBool(TRUE)
    /\ stats'.misses = stats.misses
    /\ stats'.errors = stats.errors

\* get counted a miss: misses + 1, last_miss stamped, absent returned, hits
\* and errors as they were
MissCounted ==
    /\ stats'.misses = stats.misses + 1
    /\ stats'.last_miss = Some(isoformat(now))
    /\ IsNone(last'.ret)
    /\ stats'.hits = stats.hits
    /\ stats'.errors = stats.errors

\* the step is a get on an enabled cache whose store answers
GetAnswered == last'.op = "get" /\ cache_manager.enabled /\ redis_up

C4_FailOpenGet ==
    [][ (last'.op = "get" /\ cache_manager.enabled /\ ~redis_up)
        => ( /\ IsNone(last'.ret)
             /\ ~last'.raised
             /\ stats'.errors = stats.errors + 1
             /\ stats'.hits = stats.hits
             /\ stats'.misses = stats.misses ) ]_vars

\* C4 witness: a get of a stored key while the store does not answer
C4_Witness ==
    /\ last.op = "get"
    /\ cache_manager.enabled
    /\ ~last.store_ok
    /\ last.store_calls = 1
    /\ LastKey \in DOMAIN store
    /\ stats.errors = 1

\* C5: when the store write fails during set, set returns failure without
\* raising, errors increases by exactly 1, and no entry is created or
\* changed in the store.
C5_FailOpenSet ==
    [][ (last'.op = "set" /\ cache_manager.enabled /\ ~redis_up)
        => ( /\ ~last'.ok
             /\ ~last'.raised
             /\ stats'.errors = stats.errors + 1
             /\ store' = store ) ]_vars

\* C5 witness: a set that failed on a store holding an entry
C5_Witness ==
    /\ last.op = "set"
    /\ cache_manager.enabled
    /\ ~last.store_ok
    /\ last.store_calls = 1
    /\ ~last.ok
    /\ store # <<>>
    /\ stats.errors = 1

\* force_provider is absent, empty, or the name of a provider in any case
ValidForce(force) ==
    IsNone(force) \/ Val(force) = <<>> \/ HasMember(upper(Val(force)))

\* the provider force_provider names, if it names one
ForcedMember(force) ==
    IF IsNone(force) \/ Val(force) = <<>> THEN None ELSE Some(Member(upper(Val(force))))

\* C6: while every store call fails, or the cache is disabled, a request
\* with valid input completes with status 200, cached = false and the
\* provider the router chooses; the usage is tracked, the store is left as
\* it was, and the cache changes in its errors counter only (one error for
\* the get and one for the set; none when disabled).
C6_OutageNeverFails ==
    [][ ( /\ last'.op = "get_recommendations"
          /\ (~redis_up \/ ~cache_manager.enabled)
          /\ ValidForce(last'.force_provider) )
        => LET provider == route(last'.query, last'.context,
                                 ForcedMember(last'.force_provider))
           IN  /\ last'.status_code = 200
               /\ ~IsNone(last'.ret)
               /\ Val(last'.ret).cached = PyBool(FALSE)
               /\ Val(last'.ret).llm_used = PyStr(ProviderValue[provider])
               /\ llm_router' = track_usage(llm_router, provider,
                                            input_tokens, output_tokens).self
               /\ store' = store
               /\ cache_manager' = IF cache_manager.enabled
                                   THEN [cache_manager EXCEPT !.stats.errors = @ + 2]
                                   ELSE cache_manager ]_vars

\* C6 witness: a request answered during an outage of a store that holds an
\* entry for it
C6_Witness ==
    /\ last.op = "get_recommendations"
    /\ cache_manager.enabled
    /\ ~last.store_ok
    /\ LastKey \in DOMAIN store
    /\ last.status_code = 200
    /\ stats.errors = 2

\* the methods of the CacheManager
CacheOps == {"get", "set", "invalidate", "clear_all", "health_check"}

\* C7: a cache constructed with the flag off, or whose PING failed at
\* construction, stays disabled and as constructed whatever is called and
\* whether or not the store becomes reachable: no call reaches the store,
\* get returns absent, set, invalidate and clear_all return failure,
\* health_check reports disabled, and none raises.
C7_PermanentDisable ==
    (~ctor.enabled \/ ~ctor.ping_ok) =>
        /\ ~cache_manager.enabled
        /\ cache_manager = CacheManager(ctor.ttl_days, ctor.enabled, ctor.ping_ok)
        /\ last.op \in CacheOps =>
              /\ last.store_calls = 0
              /\ ~last.raised
              /\ last.op = "get" => IsNone(last.ret)
              /\ last.op \in {"set", "invalidate", "clear_all"} => ~last.ok
              /\ last.op = "health_check" => last.status = "disabled"

\* C7 witness: the PING failed at construction, the store has since become
\* reachable, and a set has been refused
C7_Witness ==
    /\ ctor.enabled
    /\ ~ctor.ping_ok
    /\ redis_up
    /\ last.op = "set"
    /\ last.store_ok
    /\ ~last.ok

\* C8 as stated: a request carrying an unrecognized force_provider is
\* answered with status 400, never with a recommendation or a 500.
C8_UnrecognizedForceIs400 ==
    (last.op = "get_recommendations" /\ ~ValidForce(last.force_provider))
        => last.status_code = 400

\* C9 as stated: a get that finds a value that cannot be deserialized
\* returns absent without raising, errors increases by exactly 1 and hits
\* is unchanged.
C9_MalformedIsMiss ==
    [][ ( /\ GetAnswered
          /\ KeyOf(last') \in DOMAIN store
          /\ store[KeyOf(last')].data = GarbageData )
        => ( /\ IsNone(last'.ret)
             /\ ~last'.raised
             /\ stats'.errors = stats.errors + 1
             /\ stats'.hits = stats.hits ) ]_vars

\* every thread has finished its call
AllDone == \A t \in Threads : pc[t] = "done"

\* C10 as stated: after concurrent get and track_usage calls have all
\* finished, hits + misses is the number of get calls that reached an
\* answering store and each provider's count is the number of track_usage
\* calls made for it.
C10_NoLostUpdates ==
    AllDone =>
        /\ stats.hits + stats.misses =
              Cardinality({t \in Threads : loc[t].op = "get" /\ loc[t].reached})
        /\ \A p \in LLMProvider :
              llm_router.stats[p].count =
                 Cardinality({t \in Threads :
                                 loc[t].op = "track_usage" /\ loc[t].provider = p})

\* the step is a request to POST /api/recommendations
RequestStep == last'.op = "get_recommendations"

\* the probe of the request of this step finds an entry it can return
ProbeHits ==
    /\ cache_manager.enabled
    /\ redis_up
    /\ KeyOf(last') \in DOMAIN store
    /\ JsonLoadable(store[KeyOf(last')].data)

\* the request of this step was answered from the cache: get was the only
\* call, the body is the stored entry marked cached, router and store are
\* as they were
AnsweredFromCache ==
    /\ last'.calls = <<"get">>
    /\ last'.status_code = 200
    /\ last'.ret = Some(RecommendationResponse(
                       Merge(json_loads(store[KeyOf(last')].data),
                             [cached |-> PyBool(TRUE)])))
    /\ llm_router' = llm_router
    /\ store' = store

\* the request of this step was answered by a provider: get, route,
\* track_usage and set were called in this order, the usage of the routed
\* provider was tracked once, and the response returned is the one handed to
\* set (stored under the request's key when the cache works)
AnsweredByProvider ==
    /\ last'.calls = <<"get", "route", "track_usage", "set">>
    /\ last'.status_code = 200
    /\ LET provider == route(last'.query, last'.context,
                             ForcedMember(last'.force_provider))
       IN  /\ llm_router' = track_usage(llm_router, provider,
                                        input_tokens, output_tokens).self
           /\ Val(last'.ret).llm_used = PyStr(ProviderValue[provider])
    /\ (cache_manager.enabled /\ redis_up) =>
          /\ KeyOf(last') \in DOMAIN store'
          /\ RecommendationResponse(json_loads(store'[KeyOf(last')].data)) = Val(last'.ret)

\* C11 as stated: every request first probes the cache; on a hit it returns
\* the cached entry and calls none of route, track_usage, set; on a miss it
\* calls route, then track_usage once, then set, and then returns the
\* response.
C11_ControlFlowEveryMiss ==
    [][ RequestStep =>
          IF ProbeHits THEN AnsweredFromCache ELSE AnsweredByProvider ]_vars

\* C11 amended: every request first probes the cache; on a hit it returns
\* the cached entry and calls none of route, track_usage, set; on a miss
\* with force_provider absent or naming a provider it calls route, then
\* track_usage once, then set, and then returns the response; on a miss
\* with an unrecognized force_provider it calls none of them, returns no
\* response, and leaves router and store as they were.
C11_ControlFlow ==
    [][ RequestStep =>
          IF ProbeHits THEN AnsweredFromCache
          ELSE IF ValidForce(last'.force_provider) THEN AnsweredByProvider
          ELSE /\ last'.calls = <<"get">>
               /\ last'.status_code # 200
               /\ IsNone(last'.ret)
               /\ llm_router' = llm_router
               /\ store' = store ]_vars

\* C11 witness: a request answered from the cache after a request answered
\* by a provider
C11_Witness ==
    /\ last.op = "get_recommendations"
    /\ last.calls = <<"get">>
    /\ last.status_code = 200
    /\ stats.hits = 1
    /\ stats.misses = 1
    /\ \E p \in LLMProvider : llm_router.stats[p].count = 1

\* C12: invalidate(q, c) on an enabled cache whose store answers deletes the
\* entry under the key of (q, c) and no other, returns success exactly when
\* that key existed, and does not raise; and a get of a key that invalidate
\* removed, with no set of it since, returns absent.
C12_Invalidate ==
    [][ /\ (last'.op = "invalidate" /\ cache_manager.enabled /\ redis_up) =>
              /\ DOMAIN store' = (DOMAIN store) \ {KeyOf(last')}
              /\ \A k \in DOMAIN store' : store'[k] = store[k]
              /\ last'.ok = (KeyOf(last') \in DOMAIN store)
              /\ ~last'.raised
        /\ (last'.op = "get" /\ KeyOf(last') \in gone) => IsNone(last'.ret) ]_vars

\* C12 witness: a get on a working cache of a key that invalidate removed
C12_Witness ==
    /\ last.op = "get"
    /\ cache_manager.enabled
    /\ last.store_ok
    /\ LastKey \in gone
    /\ stats.misses = 1
    /\ stats.errors = 0
    /\ now = 3

\* C13: clear_all on an enabled cache whose store answers removes every key
\* under the namespace prefix and leaves the other keys of the store as they
\* were; it returns success, whether or not a key existed, and does not
\* raise; afterwards get returns absent for every (q, c), and keeps doing so
\* for a key until it is set again.
C13_ClearAll ==
    [][ /\ (last'.op = "clear_all" /\ cache_manager.enabled /\ redis_up) =>
              /\ DOMAIN store' = {k \in DOMAIN store : k.prefix # CachePrefix}
              /\ \A k \in DOMAIN store' : store'[k] = store[k]
              /\ last'.ok
              /\ ~last'.raised
              /\ \A query \in Queries, context \in Contexts :
                    IsNone(get(cache_manager', store', query, context, TRUE).ret)
              /\ Keys \subseteq gone'
        /\ (last'.op = "get" /\ KeyOf(last') \in gone) => IsNone(last'.ret) ]_vars

\* C13 witness: clear_all has emptied the namespace and left the key of
\* another application in the store
C13_Witness ==
    /\ last.op = "clear_all"
    /\ cache_manager.enabled
    /\ last.store_ok
    /\ last.ok
    /\ last.store_calls = 2
    /\ DOMAIN store = {ForeignKey}

\* a query trimmed and lower-cased
Normalized(query) == lower(strip(query))

\* a context as a map: its set of (key, value) items, none when absent
AsMap(context) ==
    IF IsNone(context) THEN {}
    ELSE {Val(context)[i] : i \in 1..Len(Val(context))}

\* the two pairs drawn are equal after normalization
SamePair ==
    /\ Normalized(args.q1) = Normalized(args.q2)
    /\ AsMap(args.c1) = AsMap(args.c2)

C15_KeyDistinctness ==
    (result # <<>> /\ ~SamePair) =>
        /\ result.key1 # result.key2
        /\ IsNone(result.got)

\* C15 witness: the queries "a" and "b" with the same context derive
\* different keys
C15_Witness ==
    /\ result # <<>>
    /\ args.q1 = QA
    /\ args.q2 = QB
    /\ args.c1 = args.c2
    /\ result.key1 # result.key2
    /\ IsNone(result.got)

\* the last call was a set that returned True
SetSucceeded == last.op = "set" /\ last.ok

\* C16: in every reachable state every entry written by set is stored under
\* the key derived from the (query, context) it was set for, and its
\* cache_key field is the key it is stored under, also when the response
\* given to set held a cache_key or cached_at of its own.
C16_StoredEntryIdentity ==
    /\ \A k \in DOMAIN store :
          JsonLoadable(store[k].data) =>
              /\ k.prefix = CachePrefix
              /\ json_loads(store[k].data).cache_key = PyKey(k)
    /\ \A k \in DOMAIN written :
          /\ k \in DOMAIN store
          /\ JsonLoadable(store[k].data)
          /\ json_loads(store[k].data).recommendations = written[k].recommendations
    /\ SetSucceeded =>
          /\ LastKey \in DOMAIN written
          /\ written[LastKey] = last.response
          /\ json_loads(store[LastKey].data).cache_key = PyKey(LastKey)

\* C16 witness: the entry of a set whose response held a cache_key and a
\* cached_at of its own is in the store
C16_Witness ==
    /\ SetSucceeded
    /\ last.response = RStale
    /\ "cache_key" \in DOMAIN last.response
    /\ json_loads(store[LastKey].data).recommendations = RStale.recommendations
    /\ json_loads(store[LastKey].data).cache_key # RStale.cache_key

\* C17 as stated: a successful set writes its entry with a TTL equal to
\* ttl_override whenever the caller gave one, and equal to the configured
\* default, ttl_days * 86400 seconds (604800 for 7 days), only when none was
\* given.
C17_TtlSelection ==
    SetSucceeded =>
        /\ LastKey \in DOMAIN store
        /\ store[LastKey].ttl =
              Some(IF IsNone(last.ttl_override)
                   THEN ctor.ttl_days * 86400
                   ELSE Val(last.ttl_override))

\* the quotient get_hit_rate returns for the cache cm, as <<numerator,
\* denominator>>, equals hits / (hits + misses), 0.0 when both are zero,
\* and lies in [0, 1]
HitRateOf(cm) ==
    LET rate == get_hit_rate(cm)
        h    == cm.stats.hits
        m    == cm.stats.misses
    IN  /\ rate[2] > 0
        /\ 0 <= rate[1] /\ rate[1] <= rate[2]
        /\ h + m = 0 => rate[1] = 0
        /\ h + m > 0 => rate[1] * (h + m) = h * rate[2]

\* the hit rate is exactly 1.0
HitRateIsOne(cm) == get_hit_rate(cm)[1] = get_hit_rate(cm)[2]

\* C18: in every reachable state get_hit_rate is hits / (hits + misses), 0.0
\* when hits = misses = 0, and within [0, 1]; no set changes hits or misses;
\* on a cache that has counted no hit and no miss, a successful set followed
\* by a get of the same (query, context) that the store answers leaves a hit
\* rate of exactly 1.0.
C18_HitRate ==
    [][ /\ HitRateOf(cache_manager)
        /\ HitRateOf(cache_manager')
        /\ last'.op = "set" =>
              /\ cache_manager'.stats.hits = cache_manager.stats.hits
              /\ cache_manager'.stats.misses = cache_manager.stats.misses
        /\ ( /\ SetSucceeded
             /\ cache_manager.stats.hits = 0
             /\ cache_manager.stats.misses = 0
             /\ last'.op = "get"
             /\ last'.store_ok
             /\ KeyOf(last') = LastKey )
           => /\ HitRateIsOne(cache_manager')
              /\ cache_manager'.stats.hits = 1
              /\ cache_manager'.stats.misses = 0 ]_vars

\* C18 witness: the first get of a cache follows a successful set of the
\* same (query, context) and the hit rate is 1.0
C18_Witness ==
    /\ last.op = "get"
    /\ ~IsNone(last.ret)
    /\ LastKey \in DOMAIN written
    /\ now = 2
    /\ stats.hits = 1
    /\ stats.misses = 0
    /\ get_hit_rate(cache_manager) = <<1, 1>>

\* the provider of each tier
TierProvider == [COMPLEX |-> "CLAUDE", MEDIUM |-> "GEMINI", SIMPLE |-> "TOGETHER"]

\* Claude is the most expensive provider, Gemini is free, Together the
\* cheapest of those that are paid
ProviderCosts ==
    /\ \A p \in LLMProvider : COSTS[p] <= COSTS.CLAUDE
    /\ COSTS.GEMINI = 0
    /\ COSTS.TOGETHER > 0
    /\ \A p \in LLMProvider : COSTS[p] > 0 => COSTS.TOGETHER <= COSTS[p]

\* the step is a call of route
Routed == result = <<>> /\ result' # <<>>

\* C19: route returns the forced provider whenever one is given, without
\* classifying the query; otherwise it returns the provider of the tier
\* analyze_complexity gives the same query and context: Complex -> Claude
\* (the most expensive), Medium -> Gemini (free), Simple -> Together (the
\* cheapest paid); and no call of route changes the usage counters.
C19_Route ==
    [][ Routed =>
          /\ llm_router'.stats = llm_router.stats
          /\ ~IsNone(result'.force_provider) =>
                /\ result'.ret = Val(result'.force_provider)
                /\ result'.calls = <<>>
          /\ IsNone(result'.force_provider) =>
                /\ result'.ret =
                      TierProvider[analyze_complexity(result'.query, result'.context)]
                /\ ProviderCosts ]_vars

\* C19 witness: a complex query forced to Together is routed to Together by
\* a router that has already tracked a request routed to Claude
C19_Witness ==
    /\ result # <<>>
    /\ result.force_provider = Some("TOGETHER")
    /\ analyze_complexity(result.query, result.context) = "COMPLEX"
    /\ result.ret = "TOGETHER"
    /\ llm_router.stats.CLAUDE.count = 1

\* the last call routed a query of more than 30 words that contains "vs"
LongComparisonRouted ==
    /\ result # <<>>
    /\ word_count(result.query) > 30
    /\ Contains(result.query, <<"v", "s">>)

\* C20 as stated: every query of more than 30 words that contains "vs" is
\* classified Complex and, no provider being forced, routed to Claude.
C20_LongComparisonIsComplex ==
    LongComparisonRouted
    => /\ analyze_complexity(result.query, result.context) = "COMPLEX"
       /\ IsNone(result.force_provider) => result.ret = "CLAUDE"

\* what the keywords, the questions and sentences and the context add to the
\* score of a query
OtherPoints(query, context) ==
    keyword_matches(COMPLEX_KEYWORDS, lower(query)) * 20
    + keyword_matches(MEDIUM_KEYWORDS, lower(query)) * 5
    + multi_question_score(query)
    + context_score(context)

\* C20 amended: every query of more than 30 words that contains "vs" is
\* classified Medium or Complex; it is classified Complex and, no provider
\* being forced, routed to Claude exactly when its keywords, its questions
\* and sentences and its context add at least 5 points to the 45 of its
\* length and its comparison token; otherwise it is Medium and routed to
\* Gemini.
C20_LongComparison ==
    LongComparisonRouted =>
        LET tier == analyze_complexity(result.query, result.context)
        IN  /\ tier = IF 30 + 15 + OtherPoints(result.query, result.context) >= 50
                      THEN "COMPLEX" ELSE "MEDIUM"
            /\ IsNone(result.force_provider) =>
                  result.ret = IF tier = "COMPLEX" THEN "CLAUDE" ELSE "GEMINI"

\* C20 witness: a query of 32 words holding "vs" and a medium keyword, with no
\* context and no forced provider, is routed to Claude
C20_Witness ==
    /\ LongComparisonRouted
    /\ IsNone(result.context)
    /\ IsNone(result.force_provider)
    /\ OtherPoints(result.query, result.context) = 5
    /\ result.ret = "CLAUDE"

\* a pair has been classified
Classified == result # <<>>

\* C21 as stated: with no context, "Cadeau pour maman" is Simple and routed
\* to Together, "Je cherche un cadeau pour ma mère qui aime lire et
\* jardiner" is Medium, and "Compare différentes options et explique
\* pourquoi" is Complex.
C21_ReferenceQueries ==
    (Classified /\ IsNone(args.context)) =>
        /\ args.query = QCadeauMaman =>
              result.complexity = "SIMPLE" /\ result.provider = "TOGETHER"
        /\ args.query = QMere => result.complexity = "MEDIUM"
        /\ args.query = QCompare => result.complexity = "COMPLEX"

\* the number of entries of a context, none when it is absent
Entries(context) == IF IsNone(context) THEN 0 ELSE Len(Val(context))

\* the score as the statement gives it
StatedScore(query, context) ==
    (IF word_count(query) > 30 THEN 30
     ELSE IF word_count(query) > 15 THEN 15
     ELSE IF word_count(query) > 8 THEN 5 ELSE 0)
    + 20 * Cardinality({i \in DOMAIN COMPLEX_KEYWORDS :
                           Contains(lower(query), COMPLEX_KEYWORDS[i])})
    + 5 * Cardinality({i \in DOMAIN MEDIUM_KEYWORDS :
                          Contains(lower(query), MEDIUM_KEYWORDS[i])})
    + (IF CountChar(query, "?") > 1 \/ sentence_count(query) > 2 THEN 15 ELSE 0)
    + (IF Entries(context) > 3 THEN 10
       ELSE IF Entries(context) \in {2, 3} THEN 5 ELSE 0)
    + (IF \E i \in DOMAIN COMPARISON_TOKENS : Contains(query, COMPARISON_TOKENS[i])
       THEN 15 ELSE 0)

\* C22: analyze_complexity returns Complex iff the score (word-count bucket
\* + 20 per complex keyword + 5 per medium keyword + 15 for several
\* questions or sentences + context bucket + 15 for a comparison token) is
\* at least 50, Medium iff it is at least 20 and below 50, Simple iff it
\* is below 20; the tier is a function of (query, context) alone, and the
\* call leaves the router as it was.
C22_ScoreAndTier ==
    Classified =>
        LET score == StatedScore(args.query, args.context)
        IN  /\ result.complexity = "COMPLEX" <=> score >= 50
            /\ result.complexity = "MEDIUM" <=> (20 <= score /\ score < 50)
            /\ result.complexity = "SIMPLE" <=> score < 20
            /\ result.complexity = analyze_complexity(args.query, args.context)
            /\ llm_router = MultiLLMRouter

\* C22 witness: a query of 16 words with a context of two entries, 15 + 5
\* points, is Medium
C22_Witness ==
    /\ Classified
    /\ word_count(args.query) = 16
    /\ Entries(args.context) = 2
    /\ StatedScore(args.query, args.context) = 20
    /\ result.complexity = "MEDIUM"

\* the order of the tiers
TierRank == [SIMPLE |-> 1, MEDIUM |-> 2, COMPLEX |-> 3]

\* the queries obtained by appending the complex keyword k to query, directly
\* or after a space
Appended(query, k) == {query \o k, query \o <<" ">> \o k}

\* C23: for every query, context and complex keyword, the tier of the query
\* with the keyword appended is not lower than the tier of the query.
C23_Monotonicity ==
    Classified =>
        \A i \in DOMAIN COMPLEX_KEYWORDS :
            \A longer \in Appended(args.query, COMPLEX_KEYWORDS[i]) :
                TierRank[analyze_complexity(longer, args.context)]
                    >= TierRank[result.complexity]

\* C23 witness: a query classified Simple that a complex keyword appended
\* to its last word makes Medium
C23_Witness ==
    /\ Classified
    /\ args.query = QCadeauMaman
    /\ result.complexity = "SIMPLE"
    /\ \E i \in DOMAIN COMPLEX_KEYWORDS :
          analyze_complexity(args.query \o COMPLEX_KEYWORDS[i], args.context) = "MEDIUM"

\* the calls of track_usage made for provider among the calls made, by index
CallsFor(calls, provider) == {i \in DOMAIN calls : calls[i].provider = provider}

\* the sum of the costs at the indices idx, in the order returned
RECURSIVE SumAt(_, _)
SumAt(costs, idx) ==
    IF idx = {} THEN 0
    ELSE LET i == CHOOSE j \in idx : \A k \in idx : k <= j
         IN  SumAt(costs, idx \ {i}) + costs[i]

\* the records of router are those of the calls made and the costs returned
Accounted(router, calls, costs) ==
    \A p \in LLMProvider :
        /\ router.stats[p].count = Cardinality(CallsFor(calls, p))
        /\ router.stats[p].total_cost = SumAt(costs, CallsFor(calls, p))

\* C24: a call track_usage(p, in, out) returns (in + out) * COSTS[p], adds 1
\* to the count of p and the cost returned to the total cost of p, and leaves
\* the records of the other providers as they were; after any sequence of
\* calls the count of each provider is the number of calls made for it and
\* its total cost the sum of the costs returned for it.
C24_TrackUsage ==
    [][ /\ Accounted(llm_router', args', result')
        /\ Len(args') > Len(args) =>
              LET call == args'[Len(args')]
                  cost == result'[Len(result')]
                  p    == call.provider
              IN  /\ last'.op = "track_usage"
                  /\ last'.ret = Some(cost)
                  /\ cost = (call.input_tokens + call.output_tokens) * COSTS[p]
                  /\ llm_router'.stats[p].count = llm_router.stats[p].count + 1
                  /\ llm_router'.stats[p].total_cost
                        = llm_router.stats[p].total_cost + cost
                  /\ \A other \in LLMProvider \ {p} :
                        llm_router'.stats[other] = llm_router.stats[other] ]_vars

\* C24 witness: track_usage(TOGETHER, 150, 200) called twice: each call
\* returned 350 times the price, the count is 2 and the total cost the sum
C24_Witness ==
    /\ Len(args) = 2
    /\ \A i \in 1..2 : args[i] = [provider |-> "TOGETHER", input_tokens |-> 150,
                                   output_tokens |-> 200]
    /\ result = <<350 * COSTS.TOGETHER, 350 * COSTS.TOGETHER>>
    /\ llm_router.stats.TOGETHER = [count |-> 2, total_cost |-> 700 * COSTS.TOGETHER]
    /\ llm_router.stats.CLAUDE = [count |-> 0, total_cost |-> 0]

\* no counter of the cache cm or of the router is negative
CountersNonNegative(cm, router) ==
    /\ cm.stats.hits >= 0 /\ cm.stats.misses >= 0 /\ cm.stats.errors >= 0
    /\ \A p \in LLMProvider :
          router.stats[p].count >= 0 /\ router.stats[p].total_cost >= 0

\* C25: hits, misses and errors, and the count and total cost of every
\* provider, start at zero, are never negative, and no operation of the
\* cache or of the router makes any of them smaller.
C25_CountersNeverDecrease ==
    [][ /\ now = 0 =>
              /\ cache_manager.stats.hits = 0 /\ cache_manager.stats.misses = 0
              /\ cache_manager.stats.errors = 0
              /\ \A p \in LLMProvider :
                    llm_router.stats[p] = [count |-> 0, total_cost |-> 0]
        /\ CountersNonNegative(cache_manager, llm_router)
        /\ CountersNonNegative(cache_manager', llm_router')
        /\ cache_manager'.stats.hits >= cache_manager.stats.hits
        /\ cache_manager'.stats.misses >= cache_manager.stats.misses
        /\ cache_manager'.stats.errors >= cache_manager.stats.errors
        /\ \A p \in LLMProvider :
              /\ llm_router'.stats[p].count >= llm_router.stats[p].count
              /\ llm_router'.stats[p].total_cost >= llm_router.stats[p].total_cost ]_vars

\* C25 witness: hits, misses and errors have all been counted and a paid
\* provider has been charged
C25_Witness ==
    /\ stats.hits > 0
    /\ stats.misses > 0
    /\ stats.errors > 0
    /\ \E p \in LLMProvider : llm_router.stats[p].total_cost > 0

\* the step is a call of estimate_monthly_cost
Estimated(call) == call.op = "estimate_monthly_cost"

\* C26: estimate_monthly_cost leaves the usage counters as they were, and
\* returns what a router that has tracked nothing returns for the same
\* daily_requests.
C26_EstimateIndependent ==
    [][ Estimated(last') =>
          /\ llm_router' = llm_router
          /\ last'.ret = Some(estimate_monthly_cost(MultiLLMRouter,
                                                    last'.daily_requests).ret) ]_vars

\* C26 witness: an estimate for 1000 requests a day made by a router that has
\* tracked two requests
C26_Witness ==
    /\ Estimated(last)
    /\ last.daily_requests = 1000
    /\ Len(args) = 2
    /\ llm_router.stats.CLAUDE.count = 2

\* the total as the statement gives it, in 10^-8 USD: daily_requests * 30
\* requests split 90 / 8 / 2, 500 tokens each, at the price of each provider
StatedTotal(daily_requests) ==
    (daily_requests * 30) * 5
        * (90 * COSTS.TOGETHER + 8 * COSTS.GEMINI + 2 * COSTS.CLAUDE)

\* C27: for every daily_requests >= 1 the total cost estimate_monthly_cost
\* reports is strictly less than its single-provider baseline, is the sum
\* over the 90 / 8 / 2 split of daily_requests * 30 requests of 500 tokens at
\* each provider's price, and the savings are the baseline minus the total.
C27_EstimateBelowBaseline ==
    (Estimated(last) /\ last.daily_requests >= 1) =>
        LET estimate == Val(last.ret)
        IN  /\ estimate.costs.total < estimate.costs.openai_comparison
            /\ estimate.costs.total = StatedTotal(last.daily_requests)
            /\ estimate.costs.total = estimate.costs.together_ai
                   + estimate.costs.gemini_flash + estimate.costs.claude_haiku
            /\ estimate.savings.amount_usd
                   = estimate.costs.openai_comparison - estimate.costs.total
            /\ estimate.savings.amount_usd > 0

\* C27 witness: the estimate for 1000 requests a day: 0.885 USD against a
\* baseline of 9 USD, in 10^-8 USD
C27_Witness ==
    /\ Estimated(last)
    /\ last.daily_requests = 1000
    /\ Val(last.ret).monthly_requests = 30000
    /\ Val(last.ret).costs.total = 88500000
    /\ Val(last.ret).costs.openai_comparison = 900000000


-----------------------------------------------------------------------------
\* the last call was get_stats of the router
GotStats(call) == call.op = "get_stats"

\* the provider each entry of the distribution reports
StatsKeys == [together |-> "TOGETHER", gemini |-> "GEMINI", claude |-> "CLAUDE"]

\* the three percentages added up as Python adds floats, left to right
PercentageSum(report) ==
    float_add(float_add(report.distribution.together.percentage,
                        report.distribution.gemini.percentage),
              report.distribution.claude.percentage)

\* x and y are the same double or neighbouring doubles of one exponent
WithinRounding(x, y) ==
    /\ x.e = y.e
    /\ \/ x.m = y.m
       \/ SumBits(x.m, <<1>>) = y.m
       \/ SumBits(y.m, <<1>>) = x.m

\* what get_stats reports apart from the sum of the percentages: the totals
\* are the sums over the three providers; with no request every percentage
\* and the average cost are 0; otherwise each percentage is
\* count / total_requests * 100
StatsReported(report, router) ==
    /\ report.total_requests = router.stats.TOGETHER.count + router.stats.GEMINI.count
                                  + router.stats.CLAUDE.count
    /\ report.total_cost_usd = router.stats.TOGETHER.total_cost
                                  + router.stats.GEMINI.total_cost
                                  + router.stats.CLAUDE.total_cost
    /\ \A name \in DOMAIN StatsKeys :
          /\ report.distribution[name].count = router.stats[StatsKeys[name]].count
          /\ report.distribution[name].cost_usd = router.stats[StatsKeys[name]].total_cost
    /\ report.total_requests = 0 =>
          /\ \A name \in DOMAIN StatsKeys :
                report.distribution[name].percentage = FloatZero
          /\ report.avg_cost_per_request = Quotient(0, 1)
    /\ report.total_requests > 0 =>
          \A name \in DOMAIN StatsKeys :
              report.distribution[name].percentage
                  = float_mul(truediv(report.distribution[name].count,
                                      report.total_requests), float(100))

\* C28 as stated: get_stats reports total_requests as the sum of the three
\* counts and total_cost_usd as the sum of the three total costs; when
\* total_requests is 0 every percentage and avg_cost_per_request are 0; when
\* it is positive the percentages are count / total * 100 and sum to 100
C28_PercentagesSumTo100 ==
    GotStats(last) =>
        /\ StatsReported(Val(last.ret), llm_router)
        /\ Val(last.ret).total_requests > 0 =>
              PercentageSum(Val(last.ret)) = float(100)

\* C28 as the code has it: the same, the percentages summing to 100 up to
\* the rounding of the float arithmetic: the sum is 100.0 or a double next
\* to it
C28_GetStats ==
    GotStats(last) =>
        /\ StatsReported(Val(last.ret), llm_router)
        /\ Val(last.ret).total_requests > 0 =>
              WithinRounding(PercentageSum(Val(last.ret)), float(100))

\* C28 witness: get_stats after one request tracked for each provider: each
\* percentage is 1 / 3 * 100 = 33.33333333333333 and their sum is
\* 99.99999999999999, the double below 100.0
C28_Witness ==
    /\ GotStats(last)
    /\ Val(last.ret).total_requests = 3
    /\ \A name \in DOMAIN StatsKeys :
          /\ Val(last.ret).distribution[name].count = 1
          /\ Val(last.ret).distribution[name].percentage
                = float_mul(truediv(1, 3), float(100))
    /\ PercentageSum(Val(last.ret)) # float(100)
    /\ SumBits(PercentageSum(Val(last.ret)).m, <<1>>) = float(100).m

-----------------------------------------------------------------------------
\* the last call was health_check of the cache manager
HealthChecked(call) == call.op = "health_check"

\* what C29 says of every health_check but its healthy case: disabled
\* exactly when the flag was off or the store unreachable at construction,
\* unhealthy when the cache is enabled and a store call failed, nothing
\* raised, and hits, misses and errors as they were
HealthReported(call, before, after) ==
    /\ (call.status = "disabled") <=> (~ctor.enabled \/ ~ctor.ping_ok)
    /\ (~Disabled(before) /\ call.answered < 3) => call.status = "unhealthy"
    /\ call.status \in {"disabled", "healthy", "unhealthy"}
    /\ ~call.raised
    /\ after.stats.hits = before.stats.hits
    /\ after.stats.misses = before.stats.misses
    /\ after.stats.errors = before.stats.errors

\* C29 as stated: health_check returns disabled exactly when the feature
\* flag is off or the store was unreachable at construction, healthy when
\* the cache is enabled and ping and info succeed, and unhealthy when the
\* cache is enabled and a store call fails; it never raises and never
\* changes hits, misses or errors
C29_HealthyWhenPingAndInfo ==
    [][ HealthChecked(last') =>
          /\ HealthReported(last', cache_manager, cache_manager')
          /\ (~Disabled(cache_manager) /\ last'.answered >= 2)
                => last'.status = "healthy" ]_vars

\* C29 as the code has it: the same, healthy when the cache is enabled and
\* ping, info and the listing of the keys all succeed, and only then
C29_HealthCheck ==
    [][ HealthChecked(last') =>
          /\ HealthReported(last', cache_manager, cache_manager')
          /\ (~Disabled(cache_manager) /\ last'.answered = 3)
                <=> last'.status = "healthy" ]_vars

\* C29 witness: after a hit, ping and info answer and the listing of the
\* keys raises: the status is unhealthy, one hit and no error are counted
C29_Witness ==
    /\ HealthChecked(last)
    /\ last.answered = 2
    /\ last.store_calls = 3
    /\ last.status = "unhealthy"
    /\ ~last.raised
    /\ cache_manager.stats.hits = 1
    /\ cache_manager.stats.errors = 0

-----------------------------------------------------------------------------
\* C30: same cache key implies same routing: any two queries that are equal
\* after trimming and lower-casing, and so share one cache key for a given
\* context, are classified into the same tier by analyze_complexity and
\* routed to the same provider
C30_SameKeySameRouting ==
    Classified =>
        \A query \in AnalyzeQueries :
            (/\ strip(lower(query)) = strip(lower(args.query))
             /\ _generate_cache_key(query, args.context)
                   = _generate_cache_key(args.query, args.context))
            => /\ analyze_complexity(query, args.context) = result.complexity
               /\ route_call(llm_router, query, args.context, None).ret = result.provider

-----------------------------------------------------------------------------
\* the call is a request that carried the name of a provider as its
\* force_provider and was answered with a response
ForcedAndAnswered(call) ==
    /\ call.op = "get_recommendations"
    /\ call.ok
    /\ ForceGiven(call)
    /\ ValidForce(call.force_provider)

\* C31: the forced provider is honoured in the response: every successful
\* response to a request that carries a valid force_provider reports
\* llm_used equal to that forced provider, whatever requests were served
\* before it
C31_ForcedProviderHonoured ==
    ForcedAndAnswered(last) =>
        Val(last.ret).llm_used
            = PyStr(ProviderValue[Val(ForcedMember(last.force_provider))])

\* C31 as the code has it: every successful response that was not served
\* from the cache (cached = false) to a request that carries a valid
\* force_provider reports llm_used equal to that forced provider, whatever
\* requests were served before it
C31_ForcedProviderOnMiss ==
    (ForcedAndAnswered(last) /\ Val(last.ret).cached = PyBool(FALSE)) =>
        Val(last.ret).llm_used
            = PyStr(ProviderValue[Val(ForcedMember(last.force_provider))])

\* C31 witness: a request forcing Claude, for a query the router sends to
\* another provider, is answered by Claude after an unforced request was
\* answered by that other provider
C31_Witness ==
    /\ ForcedAndAnswered(last)
    /\ Val(last.ret).cached = PyBool(FALSE)
    /\ Val(last.ret).llm_used = PyStr(ProviderValue.CLAUDE)
    /\ route(last.query, last.context, None) # "CLAUDE"
    /\ llm_router.stats.CLAUDE.count = 1
    /\ llm_router.stats.GEMINI.count + llm_router.stats.TOGETHER.count = 1

-----------------------------------------------------------------------------
\* the call is a request that carried an unrecognized force_provider and
\* ended in an error
RejectedForce(call) ==
    /\ call.op = "get_recommendations"
    /\ ~call.ok
    /\ ~ValidForce(call.force_provider)

\* C32: a request that ends in an error because of an unrecognized
\* force_provider leaves all router usage counters and all stored cache
\* entries unchanged: track_usage and set are never called for it
C32_RejectedForceChangesNothing ==
    [][ RejectedForce(last') =>
          /\ llm_router' = llm_router
          /\ store' = store
          /\ \A i \in 1..Len(last'.calls) :
                last'.calls[i] \notin {"route", "track_usage", "set"} ]_vars

\* C32 witness: a request with force_provider "gpt" ends in an error while
\* the store holds the entry of an earlier request it could not read and
\* the router has counted that request
C32_Witness ==
    /\ RejectedForce(last)
    /\ last.force_provider = Some(ForceGpt)
    /\ last.calls = <<"get">>
    /\ store # <<>>
    /\ \E p \in LLMProvider :
          llm_router.stats[p] = [count |-> 1, total_cost |-> 350 * COSTS[p]]

-----------------------------------------------------------------------------
\* last_hit is null exactly when no hit was counted, and last_miss exactly
\* when no miss was
StampsMatchCounters(cm) ==
    /\ IsNone(cm.stats.last_hit) <=> cm.stats.hits = 0
    /\ IsNone(cm.stats.last_miss) <=> cm.stats.misses = 0

\* hits, misses, last_hit and last_miss of after are those of before
SameHitsAndMisses(before, after) ==
    /\ after.stats.hits = before.stats.hits
    /\ after.stats.misses = before.stats.misses
    /\ after.stats.last_hit = before.stats.last_hit
    /\ after.stats.last_miss = before.stats.last_miss

\* C33: timestamp/counter consistency: in every reachable state of the
\* cache, last_hit is null if and only if hits = 0, and last_miss is null if
\* and only if misses = 0; no operation other than get changes hits, misses,
\* last_hit or last_miss
C33_StampsAndCounters ==
    [][ /\ StampsMatchCounters(cache_manager)
        /\ StampsMatchCounters(cache_manager')
        /\ last'.op # "get" => SameHitsAndMisses(cache_manager, cache_manager') ]_vars

\* C33 witness: a miss, then a set, then a hit: one miss and one hit are
\* counted, last_miss is the time of the miss, which the set left as it was,
\* and last_hit the time of the hit
C33_Witness ==
    /\ last.op = "get"
    /\ cache_manager.stats.hits = 1
    /\ cache_manager.stats.misses = 1
    /\ cache_manager.stats.last_miss = Some(isoformat(0))
    /\ cache_manager.stats.last_hit = Some(isoformat(2))
    /\ store # <<>>
=============================================================================
